---- MODULE Spec2Model ----
(***************************************************************************)
(* Chain synchronization core (ethcore/sync/src/chain/mod.rs): the         *)
(* ChainSync actor, its peer registry, the sync supervisor and the         *)
(* handlers of inbound packets, ticks and chain callbacks.                 *)
(*                                                                         *)
(* One action models one public operation as a whole.  The handlers are    *)
(* written as operators on a record `s` that holds the ChainSync fields    *)
(* together with what the handler does to its collaborators (packets       *)
(* sent, peers disabled or disconnected, data handed to the downloaders    *)
(* and to the chain client).  `i` is the record of what the handler reads  *)
(* from its collaborators during the call.                                 *)
(***************************************************************************)
EXTENDS Integers, Sequences, FiniteSets, TLC

VARIABLES
    cfg,                \* SyncConfig, fixed at construction
    state,              \* ChainSync.state
    peers,              \* ChainSync.peers : PeerId -> PeerInfo
    active_peers,       \* ChainSync.active_peers
    handshaking_peers,  \* ChainSync.handshaking_peers : PeerId -> Instant
    new_blocks,         \* ChainSync.new_blocks
    old_blocks,         \* ChainSync.old_blocks (<<>> is None, <<d>> is Some(d))
    snapshot,           \* ChainSync.snapshot
    sync_start_time,    \* ChainSync.sync_start_time (None or an instant)
    highest_block,      \* ChainSync.highest_block (None or a number)
    session,            \* network sessions, as SyncIo sees them
    wire,               \* requests sent to a peer that it has not answered
    restoration,        \* the snapshot service's RestorationStatus
    chunks_done,        \* the chunks it has restored (state and block chunks)
    ready_transactions, \* the hashes of the miner's ready transactions
    last                \* the last operation: what was called and what it did

vars == <<cfg, state, peers, active_peers, handshaking_peers, new_blocks,
          old_blocks, snapshot, sync_start_time, highest_block, session,
          wire, restoration, chunks_done, ready_transactions, last>>

----------------------------------------------------------------------------
(* Bounds of the model *)

NumPeers == 3
NumHashes == 2
NumChunks == 2
\* the chunks of the manifest of the scenario of the snapshot's flow control
MaxChunks == 5
MaxTime == 130
MaxWire == 1
MaxTxs == 2
MaxEligible == 150
MaxShuffled == 3

PeerIds == 1..NumPeers
\* the peers of the scenarios of two peers
PairIds == {p \in PeerIds : p <= 2}
\* the hashes of the transactions that the miner may hold
TxHashes == 1..MaxTxs
\* block hashes the forward downloader may ask for, and the ancient one
NewHashes == 1..NumHashes
OldHashes == (NumHashes + 1)..(2 * NumHashes)
Hashes == NewHashes \cup OldHashes
ChunkHashes == 1..cfg.chunks

----------------------------------------------------------------------------
(* Program constants *)

ETH_PROTOCOL_VERSION_63 == 63
ETH_PROTOCOL_VERSION_62 == 62
PAR_PROTOCOL_VERSION_1 == 1
PAR_PROTOCOL_VERSION_2 == 2
PAR_PROTOCOL_VERSION_3 == 3
MIN_PEERS_PROPAGATION == 4
MAX_PEERS_PROPAGATION == 128
MAX_NEW_BLOCK_AGE == 20
MAX_NEW_HASHES == 64
\* 300 * 1024
MAX_TRANSACTION_SIZE == 307200
SNAPSHOT_RESTORE_THRESHOLD == 30000
SNAPSHOT_MIN_PEERS == 3
MAX_SNAPSHOT_CHUNKS_DOWNLOAD_AHEAD == 3
WAIT_PEERS_TIMEOUT == 5
STATUS_TIMEOUT == 5
HEADERS_TIMEOUT == 15
BODIES_TIMEOUT == 20
RECEIPTS_TIMEOUT == 10
FORK_HEADER_TIMEOUT == 3
SNAPSHOT_MANIFEST_TIMEOUT == 5
SNAPSHOT_DATA_TIMEOUT == 120
\* the divisor of the handshake's elapsed time in maintain_peers
HANDSHAKE_DIVISOR == 1000000000

\* Option::None of a hash, a number or an instant
None == 0 - 1

\* An Instant is kept as the seconds that have passed since it was taken:
\* Instant::now() is 0, and the clock's tick adds to every instant kept.
Instant_now == 0
elapsed(instant) == instant

SyncStates == {"WaitingPeers", "SnapshotManifest", "SnapshotData",
               "SnapshotWaiting", "Blocks", "Idle", "Waiting", "NewBlocks"}

PeerAskings == {"Nothing", "ForkHeader", "BlockHeaders", "BlockBodies",
                "BlockReceipts", "SnapshotManifest", "SnapshotData"}

BlockSets == {"NewBlocks", "OldBlocks"}

\* what the chain client reports: chain_info() and block_status().  The
\* best block is the only block the chain knows; the ancient block is where
\* an ancient-block download starts.
chain_info ==
    [best_block_number |-> 100, best_block_hash |-> 0,
     pending_total_difficulty |-> 1,
     ancient_block_hash |-> NumHashes + 1, ancient_block_number |-> 10]

\* a hash the chain has marked bad
BadHash == 2 * NumHashes + 1

block_status(hash) ==
    IF hash = chain_info.best_block_hash THEN "InChain"
    ELSE IF hash = BadHash THEN "Bad" ELSE "Unknown"

\* SnapshotService::supported_versions()
supported_versions == <<1, 2>>

ManifestHashes == {1, 2}

----------------------------------------------------------------------------
(* Events of one call, in the order in which the handler produces them *)

\* c: the peer could sync when the event happened; w: a request to it was
\* unanswered on the wire then
Ev(s, e, p, k) ==
    [e |-> e, p |-> p, k |-> k,
     c |-> p \in DOMAIN s.peers /\ s.peers[p].confirmation = "Confirmed"
                                /\ ~s.peers[p].expired,
     w |-> p \in DOMAIN s.wire /\ s.wire[p] /= <<>>]
Log(s, e, p, k) == [s EXCEPT !.log = Append(@, Ev(s, e, p, k))]

\* SyncIo::disable_peer and SyncIo::disconnect_peer
DisablePeer(s, p) ==
    Log([s EXCEPT !.session[p] = IF @ = "open" THEN "closing" ELSE @],
        "disable", p, "")
DisconnectPeer(s, p) ==
    Log([s EXCEPT !.session[p] = IF @ = "open" THEN "closing" ELSE @],
        "disconnect", p, "")

----------------------------------------------------------------------------
(* PeerInfo *)

can_sync(peer) == peer.confirmation = "Confirmed" /\ ~peer.expired

is_allowed(peer) == peer.confirmation /= "Unconfirmed" /\ ~peer.expired

\* reset_asking that expires a peer that is asked nothing as well
reset_asking_idle(peer) ==
    [peer EXCEPT !.asking_blocks = {},
                 !.asking_hash = None,
                 !.expired = IF is_allowed(peer) THEN TRUE ELSE @]

reset_asking(peer) ==
    [peer EXCEPT !.asking_blocks = {},
                 !.asking_hash = None,
                 !.expired = IF peer.asking /= "Nothing" /\ is_allowed(peer)
                             THEN TRUE ELSE @]

Registered(s, p) == p \in DOMAIN s.peers

RemoveKey(f, k) == [x \in DOMAIN f \ {k} |-> f[x]]

\* HashMap::new()
EmptyMap == [x \in {} |-> x]

----------------------------------------------------------------------------
(* BlockDownloader: the contract the core relies on.  S are the subchain   *)
(* anchors still to be requested, H the headers that lack a body, R the    *)
(* blocks that lack receipts; dh, db and dr mark what a peer is            *)
(* downloading.                                                            *)

NewDownloader(sync_receipts, anchor, number) ==
    [sync_receipts |-> sync_receipts, anchor |-> anchor, l |-> number,
     S |-> {anchor}, H |-> {}, R |-> {}, dh |-> {}, db |-> {}, dr |-> {}]

downloader_reset(d) ==
    [d EXCEPT !.S = {d.anchor}, !.H = {}, !.R = {},
              !.dh = {}, !.db = {}, !.dr = {}]

reset_to(d, hashes) ==
    [downloader_reset(d) EXCEPT !.S = hashes]

Last(d) == IF d.anchor \in NewHashes THEN NumHashes ELSE 2 * NumHashes

\* the request the downloader hands out next, or none
next_request(d) ==
    IF d.H \ d.db /= {} THEN [kind |-> "Bodies", hashes |-> d.H \ d.db]
    ELSE IF d.R \ d.dr /= {} THEN [kind |-> "Receipts", hashes |-> d.R \ d.dr]
    ELSE IF d.S \ d.dh /= {}
         THEN LET h == CHOOSE x \in d.S \ d.dh : \A y \in d.S \ d.dh : x <= y
              IN  [kind |-> "Headers", hashes |-> {h}]
    ELSE [kind |-> "None", hashes |-> {}]

\* the downloader after request_blocks has handed out next_request(d)
request_blocks(d) ==
    LET r == next_request(d) IN
    CASE r.kind = "Bodies"   -> [d EXCEPT !.db = @ \cup r.hashes]
      [] r.kind = "Receipts" -> [d EXCEPT !.dr = @ \cup r.hashes]
      [] r.kind = "Headers"  -> [d EXCEPT !.dh = @ \cup r.hashes]
      [] OTHER -> d

\* import_headers: <<result, downloader>>
import_headers(d, pkt, expected) ==
    IF pkt.bad THEN <<"Invalid", d>>
    ELSE IF pkt.items = {} THEN <<"Useless", d>>
    ELSE IF expected \notin pkt.items \/ expected \notin d.S
         THEN <<"Reset", downloader_reset(d)>>
    ELSE <<"None",
           [d EXCEPT !.H = @ \cup {expected},
                     !.S = (@ \ {expected}) \cup
                           (IF expected < Last(d) THEN {expected + 1} ELSE {})]>>

import_bodies(d, pkt) ==
    IF pkt.bad THEN <<"Invalid", d>>
    ELSE IF pkt.items \cap d.H = {} THEN <<"Useless", d>>
    ELSE <<"Ok", [d EXCEPT !.H = @ \ pkt.items,
                           !.R = IF d.sync_receipts
                                 THEN @ \cup (pkt.items \cap d.H) ELSE @]>>

import_receipts(d, pkt) ==
    IF pkt.bad THEN <<"Invalid", d>>
    ELSE IF pkt.items \cap d.R = {} THEN <<"Useless", d>>
    ELSE <<"Ok", [d EXCEPT !.R = @ \ pkt.items]>>

is_complete(d) == d.S = {} /\ d.H = {} /\ d.R = {}

mark_as_known(d, number) ==
    IF number = d.l + 1 THEN [d EXCEPT !.l = number] ELSE d

clear_header_download(d, hash) == [d EXCEPT !.dh = @ \ {hash}]
clear_body_download(d, hashes) == [d EXCEPT !.db = @ \ hashes]
clear_receipt_download(d, hashes) == [d EXCEPT !.dr = @ \ hashes]

----------------------------------------------------------------------------
(* Snapshot: the snapshot downloader *)

NewSnapshot(bad) ==
    [hash |-> None, pending |-> {}, downloading |-> {}, completed |-> {},
     bad |-> bad]

snapshot_clear(sn) == NewSnapshot(sn.bad)

snapshot_reset_to(sn, manifest_hash) ==
    [sn EXCEPT !.hash = manifest_hash, !.pending = ChunkHashes,
               !.downloading = {}, !.completed = {}]

have_manifest(sn) == sn.hash /= None

needed_chunk(sn) ==
    IF sn.pending \ sn.downloading = {} THEN None
    ELSE CHOOSE c \in sn.pending \ sn.downloading :
             \A x \in sn.pending \ sn.downloading : c <= x

validate_chunk(sn, chunk) ==
    IF chunk \in sn.pending
    THEN <<"Ok", [sn EXCEPT !.pending = @ \ {chunk},
                            !.downloading = @ \ {chunk},
                            !.completed = @ \cup {chunk}]>>
    ELSE <<"Err", sn>>

clear_chunk_download(sn, hash) == [sn EXCEPT !.downloading = @ \ {hash}]
snapshot_is_complete(sn) == have_manifest(sn) /\ sn.pending = {}
done_chunks(sn) == Cardinality(sn.completed)
note_bad(sn, hash) == [sn EXCEPT !.bad = @ \cup {hash}]
is_known_bad(sn, hash) == hash \in sn.bad

----------------------------------------------------------------------------
(* SyncRequester: builds a request and tags the peer's in-flight slot *)

send_request(s, p, asking) ==
    IF Registered(s, p) /\ s.peers[p].asking = "Nothing"
    THEN [Log(s, "send", p, asking) EXCEPT
             !.peers[p].asking = asking,
             !.peers[p].ask_time = Instant_now,
             !.wire[p] = IF Len(@) < MaxWire THEN Append(@, asking) ELSE @]
    ELSE s

request_fork_header_by_number(s, p) == send_request(s, p, "ForkHeader")

request_blocks_from(s, p, request, block_set) ==
    IF ~Registered(s, p) \/ s.peers[p].asking /= "Nothing" THEN s
    ELSE CASE request.kind = "Headers" ->
                [send_request(s, p, "BlockHeaders") EXCEPT
                    !.peers[p].asking_hash =
                        CHOOSE h \in request.hashes : TRUE,
                    !.peers[p].block_set = block_set]
           [] request.kind = "Bodies" ->
                [send_request(s, p, "BlockBodies") EXCEPT
                    !.peers[p].asking_blocks = request.hashes,
                    !.peers[p].block_set = block_set]
           [] request.kind = "Receipts" ->
                [send_request(s, p, "BlockReceipts") EXCEPT
                    !.peers[p].asking_blocks = request.hashes,
                    !.peers[p].block_set = block_set]
           [] OTHER -> s

request_snapshot_manifest(s, p) == send_request(s, p, "SnapshotManifest")

request_snapshot_data(s, p) ==
    LET chunk == needed_chunk(s.snapshot) IN
    IF ~Registered(s, p) \/ s.peers[p].asking /= "Nothing" \/ chunk = None
    THEN s
    ELSE [send_request(s, p, "SnapshotData") EXCEPT
            !.peers[p].asking_snapshot_data = chunk,
            !.snapshot.downloading = @ \cup {chunk}]

----------------------------------------------------------------------------
(* ChainSync: the helpers of the handlers *)

\* deactivate_peer that leaves the peer active
deactivate_peer_kept(s, p) == s

deactivate_peer(s, p) == [s EXCEPT !.active_peers = @ \ {p}]

\* a sync that never pauses
pause_sync_skipped(s) == s

pause_sync(s) == [s EXCEPT !.state = "Waiting"]

clear_peer_download(s, p) ==
    IF ~Registered(s, p) THEN s
    ELSE LET peer == s.peers[p] IN
      CASE peer.asking = "BlockHeaders" ->
             IF peer.asking_hash = None THEN s
             ELSE [s EXCEPT
                     !.new_blocks = clear_header_download(@, peer.asking_hash),
                     !.old_blocks = IF @ = <<>> THEN @
                         ELSE <<clear_header_download(@[1], peer.asking_hash)>>]
        [] peer.asking = "BlockBodies" ->
             [s EXCEPT
                !.new_blocks = clear_body_download(@, peer.asking_blocks),
                !.old_blocks = IF @ = <<>> THEN @
                    ELSE <<clear_body_download(@[1], peer.asking_blocks)>>]
        [] peer.asking = "BlockReceipts" ->
             [s EXCEPT
                !.new_blocks = clear_receipt_download(@, peer.asking_blocks),
                !.old_blocks = IF @ = <<>> THEN @
                    ELSE <<clear_receipt_download(@[1], peer.asking_blocks)>>]
        [] peer.asking = "SnapshotData" ->
             IF peer.asking_snapshot_data = None THEN s
             ELSE [s EXCEPT !.snapshot =
                      clear_chunk_download(@, peer.asking_snapshot_data)]
        [] OTHER -> s

\* reset_peer_asking: the peer record after the call; the result is
\* reset_peer_asking_ok
reset_peer_asking_ok(s, p, asking) ==
    Registered(s, p) /\ s.peers[p].asking = asking

reset_peer_asking(s, p) ==
    IF Registered(s, p)
    THEN [s EXCEPT !.peers[p].expired = FALSE,
                   !.peers[p].block_set = "None",
                   !.peers[p].asking = "Nothing"]
    ELSE s

update_targets(s) ==
    [s EXCEPT
       !.new_blocks = NewDownloader(FALSE, 1, chain_info.best_block_number),
       !.old_blocks =
           IF cfg.download_old_blocks
           THEN <<NewDownloader(TRUE, chain_info.ancient_block_hash,
                                chain_info.ancient_block_number)>>
           ELSE <<>>]

reset(s) ==
    LET s1 == Log(s, "reset", 0, "") IN
    [s1 EXCEPT
       !.new_blocks = downloader_reset(@),
       !.peers = [p \in DOMAIN s.peers |->
                    IF s.peers[p].block_set /= "OldBlocks"
                    THEN LET q == reset_asking(s.peers[p]) IN
                         [q EXCEPT !.difficulty =
                             IF @ = None
                             THEN chain_info.pending_total_difficulty ELSE @]
                    ELSE s.peers[p]],
       !.state = "Idle",
       !.active_peers = DOMAIN s.peers]

\* peers.sort_by(version): the stable sort of the shuffled list
RECURSIVE InsertByVersion(_, _, _)
InsertByVersion(s, p, sorted) ==
    IF sorted = <<>> THEN <<p>>
    ELSE IF s.peers[Head(sorted)].protocol_version >= s.peers[p].protocol_version
         THEN <<p>> \o sorted
         ELSE <<Head(sorted)>> \o InsertByVersion(s, p, Tail(sorted))

RECURSIVE SortByVersion(_, _)
SortByVersion(s, list) ==
    IF list = <<>> THEN <<>>
    ELSE InsertByVersion(s, Head(list), SortByVersion(s, Tail(list)))

\* the peers that may be offered a snapshot, with the hash each advertises
SnapshotCandidate(s, p) ==
    LET peer == s.peers[p]
        sn == peer.snapshot_number
        our_best_block == chain_info.best_block_number
        fork_block == IF cfg.fork_block THEN cfg.fork_number ELSE 0
        expected_warp_block ==
            IF cfg.warp_sync = "OnlyAndAfter" THEN cfg.warp_block ELSE 0
    IN  /\ is_allowed(peer)
        /\ sn /= None
        /\ our_best_block < sn
        /\ (sn - our_best_block) > SNAPSHOT_RESTORE_THRESHOLD
        /\ sn > fork_block
        /\ sn > expected_warp_block
        /\ (s.highest_block = None \/
            (s.highest_block >= sn /\
             (s.highest_block - sn) <= SNAPSHOT_RESTORE_THRESHOLD))
        /\ peer.snapshot_hash /= None
        /\ ~is_known_bad(s.snapshot, peer.snapshot_hash)

\* the loop over the candidates, in the order in which the map yields them:
\* the peers of each hash, the largest group so far and its hash
RECURSIVE SnapshotTally(_, _, _)
SnapshotTally(s, list, acc) ==
    IF list = <<>> THEN acc
    ELSE LET p == Head(list)
             hash == s.peers[p].snapshot_hash
             group == Append(acc.snapshot_peers[hash], p)
             acc1 == [acc EXCEPT !.snapshot_peers[hash] = group]
         IN  SnapshotTally(s, Tail(list),
                 IF Len(group) > acc.max_peers
                 THEN [acc1 EXCEPT !.max_peers = Len(group),
                                   !.best_hash = hash]
                 ELSE acc1)

RECURSIVE continue_sync(_, _)
RECURSIVE sync_peer(_, _, _, _)
RECURSIVE maybe_start_snapshot_sync(_, _)
RECURSIVE sync_peers_in(_, _, _)
RECURSIVE request_manifest_from(_, _)

request_manifest_from(s, list) ==
    IF list = <<>> THEN s
    ELSE request_manifest_from(
            IF Registered(s, Head(list)) /\ s.peers[Head(list)].asking = "Nothing"
            THEN request_snapshot_manifest(s, Head(list)) ELSE s,
            Tail(list))

\* start_snapshot_sync that takes every start for the resumption of a download
start_snapshot_sync_resumed(s, list) ==
    [s EXCEPT !.state = "SnapshotData"]

\* a snapshot sync that asks for the manifest but leaves the state as it is
start_snapshot_sync_staying(s, list) ==
    IF ~have_manifest(s.snapshot)
    THEN request_manifest_from(s, list)
    ELSE s

start_snapshot_sync(s, list) ==
    IF ~have_manifest(s.snapshot)
    THEN [request_manifest_from(s, list) EXCEPT !.state = "SnapshotManifest"]
    ELSE [s EXCEPT !.state = "SnapshotData"]

\* maybe_start_snapshot_sync that starts a snapshot sync only with
\* SNAPSHOT_MIN_PEERS peers
maybe_start_snapshot_sync_confirmed(s, i) ==
    IF cfg.warp_sync = "Disabled" THEN s
    ELSE IF s.state \notin {"WaitingPeers", "Blocks", "Waiting"} THEN s
    ELSE
      LET Cand(p) == Registered(s, p) /\ SnapshotCandidate(s, p)
          tally == SnapshotTally(s, SelectSeq(i.ord, Cand),
                       [snapshot_peers |-> [h \in ManifestHashes |-> <<>>],
                        max_peers |-> 0, best_hash |-> None])
          timeout == /\ s.state = "WaitingPeers"
                     /\ s.sync_start_time /= None
                     /\ elapsed(s.sync_start_time) > WAIT_PEERS_TIMEOUT
      IN  IF tally.best_hash /= None
          THEN IF tally.max_peers >= SNAPSHOT_MIN_PEERS
               THEN start_snapshot_sync(s,
                        tally.snapshot_peers[tally.best_hash])
               ELSE s
          ELSE IF timeout /\ cfg.warp_sync /= "OnlyAndAfter"
               THEN continue_sync([s EXCEPT !.state = "Idle"], i)
               ELSE s

\* maybe_start_snapshot_sync that does not look at warp_sync
maybe_start_snapshot_sync_always(s, i) ==
    IF s.state \notin {"WaitingPeers", "Blocks", "Waiting"} THEN s
    ELSE
      LET Cand(p) == Registered(s, p) /\ SnapshotCandidate(s, p)
          tally == SnapshotTally(s, SelectSeq(i.ord, Cand),
                       [snapshot_peers |-> [h \in ManifestHashes |-> <<>>],
                        max_peers |-> 0, best_hash |-> None])
          timeout == /\ s.state = "WaitingPeers"
                     /\ s.sync_start_time /= None
                     /\ elapsed(s.sync_start_time) > WAIT_PEERS_TIMEOUT
      IN  IF tally.best_hash /= None
          THEN IF tally.max_peers >= SNAPSHOT_MIN_PEERS \/ timeout
               THEN start_snapshot_sync(s,
                        tally.snapshot_peers[tally.best_hash])
               ELSE s
          ELSE IF timeout /\ cfg.warp_sync /= "OnlyAndAfter"
               THEN continue_sync([s EXCEPT !.state = "Idle"], i)
               ELSE s

maybe_start_snapshot_sync(s, i) ==
    IF cfg.warp_sync = "Disabled" THEN s
    ELSE IF s.state \notin {"WaitingPeers", "Blocks", "Waiting"} THEN s
    ELSE
      LET Cand(p) == Registered(s, p) /\ SnapshotCandidate(s, p)
          tally == SnapshotTally(s, SelectSeq(i.ord, Cand),
                       [snapshot_peers |-> [h \in ManifestHashes |-> <<>>],
                        max_peers |-> 0, best_hash |-> None])
          timeout == /\ s.state = "WaitingPeers"
                     /\ s.sync_start_time /= None
                     /\ elapsed(s.sync_start_time) > WAIT_PEERS_TIMEOUT
      IN  IF tally.best_hash /= None
          THEN IF tally.max_peers >= SNAPSHOT_MIN_PEERS \/ timeout
               THEN start_snapshot_sync(s,
                        tally.snapshot_peers[tally.best_hash])
               ELSE s
          ELSE IF timeout /\ cfg.warp_sync /= "OnlyAndAfter"
               THEN continue_sync([s EXCEPT !.state = "Idle"], i)
               ELSE s

sync_peer(s, i, p, force) ==
    IF p \notin s.active_peers THEN s
    ELSE IF ~Registered(s, p) THEN s
    ELSE IF s.peers[p].asking /= "Nothing" \/ ~can_sync(s.peers[p]) THEN s
    ELSE IF s.state = "Waiting" THEN s
    ELSE IF s.state = "SnapshotWaiting" THEN s
    ELSE
      LET peer == s.peers[p]
          higher_difficulty ==
              peer.difficulty = None \/
              peer.difficulty > chain_info.pending_total_difficulty
      IN
      IF ~(force \/ higher_difficulty \/ s.old_blocks /= <<>>) THEN s
      ELSE
        CASE s.state = "WaitingPeers" -> maybe_start_snapshot_sync(s, i)
          [] s.state \in {"Idle", "Blocks", "NewBlocks"} ->
               IF i.qfull THEN pause_sync(s)
               ELSE
                 LET have_latest == block_status(peer.latest_hash) /= "Unknown"
                     want_new == ~have_latest /\
                         (higher_difficulty \/ force \/ s.state = "NewBlocks")
                     request == next_request(s.new_blocks)
                 IN
                 IF want_new /\ request.kind /= "None"
                 THEN LET s1 == request_blocks_from(
                             [s EXCEPT !.new_blocks = request_blocks(@)],
                             p, request, "NewBlocks")
                      IN  [s1 EXCEPT !.state =
                              IF @ = "Idle" THEN "Blocks" ELSE @]
                 ELSE IF s.old_blocks /= <<>> /\
                         next_request(s.old_blocks[1]).kind /= "None"
                 THEN request_blocks_from(
                         [s EXCEPT !.old_blocks = <<request_blocks(@[1])>>],
                         p, next_request(s.old_blocks[1]), "OldBlocks")
                 ELSE s
          [] s.state = "SnapshotData" ->
               IF s.restoration = "Ongoing" /\
                  done_chunks(s.snapshot) - i.chunks_done
                      > MAX_SNAPSHOT_CHUNKS_DOWNLOAD_AHEAD
               THEN [s EXCEPT !.state = "SnapshotWaiting"]
               ELSE IF peer.snapshot_hash /= None /\
                       peer.snapshot_hash = s.snapshot.hash
               THEN request_snapshot_data(clear_peer_download(s, p), p)
               ELSE s
          [] OTHER -> s

sync_peers_in(s, i, list) ==
    IF list = <<>> THEN s
    ELSE sync_peers_in(
            IF Head(list) \in s.active_peers
            THEN sync_peer(s, i, Head(list), FALSE) ELSE s,
            i, Tail(list))

\* continue_sync that never completes the round
continue_sync_unfinished(s, i) ==
    LET CanSync(p) == Registered(s, p) /\ can_sync(s.peers[p])
    IN  sync_peers_in(s, i, SortByVersion(s, SelectSeq(i.ord, CanSync)))

complete_sync(s) == [reset(s) EXCEPT !.state = "Idle"]

continue_sync(s, i) ==
    LET CanSync(p) == Registered(s, p) /\ can_sync(s.peers[p])
        list == SortByVersion(s, SelectSeq(i.ord, CanSync))
        s1 == sync_peers_in(s, i, list)
    IN  IF /\ s1.state \notin {"WaitingPeers", "SnapshotWaiting", "Waiting", "Idle"}
           /\ ~\E p \in DOMAIN s1.peers :
                 /\ s1.peers[p].asking /= "Nothing"
                 /\ s1.peers[p].block_set /= "OldBlocks"
                 /\ can_sync(s1.peers[p])
        THEN complete_sync(s1)
        ELSE s1

reset_and_continue(s, i) ==
    LET s1 == IF s.state = "SnapshotData"
              THEN Log(s, "abort_restore", 0, "") ELSE s
        s2 == [s1 EXCEPT !.snapshot = snapshot_clear(@),
                         !.restoration = IF s.state = "SnapshotData"
                                         THEN "Inactive" ELSE @]
    IN  continue_sync(reset(s2), i)

restart(s, i) ==
    reset_and_continue(update_targets(Log(s, "restart", 0, "")), i)

abort(s, i) ==
    [reset_and_continue(s, i) EXCEPT !.peers = EmptyMap]

\* collect_blocks: `invalid` is whether the downloader's collect_blocks
\* reports an invalid block
collect_blocks(s, i, block_set, invalid) ==
    IF block_set = "NewBlocks"
    THEN IF invalid THEN restart(s, i) ELSE s
    ELSE IF s.old_blocks /= <<>> /\ invalid THEN restart(s, i)
    ELSE IF s.old_blocks /= <<>> /\ is_complete(s.old_blocks[1])
         THEN [s EXCEPT !.old_blocks = <<>>]
    ELSE s

----------------------------------------------------------------------------
(* ChainSync: the handlers of inbound packets *)

\* PeerInfo::new with the fork confirmation granted whatever the configuration
NewPeerInfo_confirmed(st, warp_protocol) ==
    [protocol_version |-> st.protocol_version,
     difficulty |-> st.difficulty,
     latest_hash |-> st.latest_hash,
     asking |-> "Nothing",
     asking_blocks |-> {},
     asking_hash |-> None,
     ask_time |-> Instant_now,
     expired |-> FALSE,
     confirmation |-> "Confirmed",
     asking_snapshot_data |-> None,
     snapshot_hash |-> IF warp_protocol THEN st.snapshot_hash ELSE None,
     snapshot_number |-> IF warp_protocol THEN st.snapshot_number ELSE None,
     block_set |-> "None",
     last_sent_transactions |-> {}]

NewPeerInfo(st, warp_protocol) ==
    [protocol_version |-> st.protocol_version,
     difficulty |-> st.difficulty,
     latest_hash |-> st.latest_hash,
     asking |-> "Nothing",
     asking_blocks |-> {},
     asking_hash |-> None,
     ask_time |-> Instant_now,
     expired |-> FALSE,
     confirmation |-> IF ~cfg.fork_block THEN "Confirmed" ELSE "Unconfirmed",
     asking_snapshot_data |-> None,
     snapshot_hash |-> IF warp_protocol THEN st.snapshot_hash ELSE None,
     snapshot_number |-> IF warp_protocol THEN st.snapshot_number ELSE None,
     block_set |-> "None",
     last_sent_transactions |-> {}]

\* io.is_expired(): the session of the packet has been closed by us
is_expired(s, p) == s.session[p] /= "open"

\* on_peer_status without the test of the network id
on_peer_status_any_network(s, i, p, st) ==
    LET s0 == [s EXCEPT !.handshaking_peers = RemoveKey(@, p)]
        warp_protocol == p \in i.warp
        version == st.protocol_version
    IN
    IF st.malformed \/ (warp_protocol /\ st.item_count < 7)
    THEN Log(s0, "malformed", p, "")
    ELSE IF is_expired(s0, p) THEN s0
    ELSE IF Registered(s0, p) THEN Log(s0, "unexpected", p, "Status")
    ELSE IF ~st.genesis_ok THEN DisablePeer(s0, p)
    ELSE IF \/ (/\ warp_protocol
                /\ version /= PAR_PROTOCOL_VERSION_1
                /\ version /= PAR_PROTOCOL_VERSION_2
                /\ version /= PAR_PROTOCOL_VERSION_3)
            \/ (/\ ~warp_protocol
                /\ version /= ETH_PROTOCOL_VERSION_63
                /\ version /= ETH_PROTOCOL_VERSION_62)
         THEN DisablePeer(s0, p)
    ELSE
      LET s1 == [s0 EXCEPT
                   !.sync_start_time = IF @ = None THEN Instant_now ELSE @,
                   !.peers = (p :> NewPeerInfo(st, warp_protocol)) @@ @,
                   !.active_peers = @ \cup {p}]
      IN  IF cfg.fork_block
          THEN request_fork_header_by_number(s1, p)
          ELSE sync_peer(s1, i, p, FALSE)

on_peer_status(s, i, p, st) ==
    LET s0 == [s EXCEPT !.handshaking_peers = RemoveKey(@, p)]
        warp_protocol == p \in i.warp
        version == st.protocol_version
    IN
    IF st.malformed \/ (warp_protocol /\ st.item_count < 7)
    THEN Log(s0, "malformed", p, "")
    ELSE IF is_expired(s0, p) THEN s0
    ELSE IF Registered(s0, p) THEN Log(s0, "unexpected", p, "Status")
    ELSE IF ~st.genesis_ok THEN DisablePeer(s0, p)
    ELSE IF ~st.network_ok THEN DisablePeer(s0, p)
    ELSE IF \/ (/\ warp_protocol
                /\ version /= PAR_PROTOCOL_VERSION_1
                /\ version /= PAR_PROTOCOL_VERSION_2
                /\ version /= PAR_PROTOCOL_VERSION_3)
            \/ (/\ ~warp_protocol
                /\ version /= ETH_PROTOCOL_VERSION_63
                /\ version /= ETH_PROTOCOL_VERSION_62)
         THEN DisablePeer(s0, p)
    ELSE
      LET s1 == [s0 EXCEPT
                   !.sync_start_time = IF @ = None THEN Instant_now ELSE @,
                   !.peers = (p :> NewPeerInfo(st, warp_protocol)) @@ @,
                   !.active_peers = @ \cup {p}]
      IN  IF cfg.fork_block
          THEN request_fork_header_by_number(s1, p)
          ELSE sync_peer(s1, i, p, FALSE)

\* the downloader that owns block_set
downloader_of(s, block_set) ==
    IF block_set = "NewBlocks" THEN s.new_blocks ELSE s.old_blocks[1]

with_downloader(s, block_set, d) ==
    IF block_set = "NewBlocks" THEN [s EXCEPT !.new_blocks = d]
    ELSE [s EXCEPT !.old_blocks = <<d>>]

on_peer_block_headers(s, i, p, pkt) ==
    IF Registered(s, p) /\ s.peers[p].asking = "ForkHeader"
    THEN
      LET s1 == [s EXCEPT !.peers[p].asking = "Nothing"] IN
      IF pkt.malformed THEN Log(s1, "malformed", p, "")
      ELSE IF Cardinality(pkt.items) = 0 \/ Cardinality(pkt.items) /= 1
      THEN sync_peer([s1 EXCEPT !.peers[p].confirmation = "TooShort"],
                     i, p, FALSE)
      ELSE IF pkt.fork_match
      THEN sync_peer([s1 EXCEPT !.peers[p].confirmation = "Confirmed"],
                     i, p, FALSE)
      ELSE DisablePeer(s1, p)
    ELSE
      LET s1 == clear_peer_download(s, p)
          expected_hash == IF Registered(s1, p)
                           THEN s1.peers[p].asking_hash ELSE None
          allowed == Registered(s1, p) /\ is_allowed(s1.peers[p])
          block_set == IF Registered(s1, p) /\ s1.peers[p].block_set /= "None"
                       THEN s1.peers[p].block_set ELSE "NewBlocks"
          asked == reset_peer_asking_ok(s1, p, "BlockHeaders")
          s2 == reset_peer_asking(s1, p)
      IN
      IF ~asked \/ expected_hash = None \/ ~allowed THEN continue_sync(s2, i)
      ELSE IF pkt.malformed THEN Log(s2, "malformed", p, "")
      ELSE IF s2.state \in {"Idle", "WaitingPeers"} /\ s2.old_blocks = <<>>
      THEN continue_sync(s2, i)
      ELSE IF s2.state = "Waiting" THEN continue_sync(s2, i)
      ELSE IF block_set = "OldBlocks" /\ s2.old_blocks = <<>>
      THEN continue_sync(s2, i)
      ELSE
        LET result == import_headers(downloader_of(s2, block_set), pkt,
                                     expected_hash)
            s3 == with_downloader(Log(s2, "import", p, "BlockHeaders"),
                                  block_set, result[2])
        IN
        IF result[1] = "Invalid"
        THEN continue_sync(deactivate_peer(DisablePeer(s3, p), p), i)
        ELSE
          LET s4 ==
                CASE result[1] = "Useless" -> deactivate_peer(s3, p)
                  [] result[1] = "Reset" ->
                       [s3 EXCEPT !.peers =
                          [q \in DOMAIN s3.peers |->
                             IF s3.peers[q].block_set = block_set
                             THEN reset_asking(s3.peers[q])
                             ELSE s3.peers[q]]]
                  [] OTHER -> s3
              s5 == collect_blocks(s4, i, block_set, pkt.collect_invalid)
          IN  continue_sync(sync_peer(s5, i, p, FALSE), i)

\* on_peer_block_bodies and on_peer_block_receipts
on_peer_block_data(s, i, p, pkt, asking) ==
    LET s1 == clear_peer_download(s, p)
        block_set == IF Registered(s1, p) /\ s1.peers[p].block_set /= "None"
                     THEN s1.peers[p].block_set ELSE "NewBlocks"
        asked == reset_peer_asking_ok(s1, p, asking)
        s2 == reset_peer_asking(s1, p)
    IN
    IF ~asked THEN continue_sync(s2, i)
    ELSE IF pkt.malformed THEN Log(s2, "malformed", p, "")
    ELSE IF Cardinality(pkt.items) = 0
    THEN continue_sync(deactivate_peer(s2, p), i)
    ELSE IF s2.state = "Waiting" THEN continue_sync(s2, i)
    ELSE IF block_set = "OldBlocks" /\ s2.old_blocks = <<>>
    THEN continue_sync(s2, i)
    ELSE
      LET d == downloader_of(s2, block_set)
          result == IF asking = "BlockBodies"
                    THEN import_bodies(d, pkt) ELSE import_receipts(d, pkt)
          s3 == with_downloader(Log(s2, "import", p, asking),
                                block_set, result[2])
      IN
      IF result[1] = "Invalid"
      THEN continue_sync(deactivate_peer(DisablePeer(s3, p), p), i)
      ELSE
        LET s4 == IF result[1] = "Useless" THEN deactivate_peer(s3, p) ELSE s3
            s5 == collect_blocks(s4, i, block_set, pkt.collect_invalid)
        IN  continue_sync(sync_peer(s5, i, p, FALSE), i)

on_peer_block_bodies(s, i, p, pkt) ==
    on_peer_block_data(s, i, p, pkt, "BlockBodies")

on_peer_block_receipts(s, i, p, pkt) ==
    on_peer_block_data(s, i, p, pkt, "BlockReceipts")

is_downloading(d, hash) == hash \in d.dh \cup d.db \cup d.dr

\* on_peer_new_block that does not force the sync with the sender
on_peer_new_block_unforced(s, i, p, pkt) ==
    IF ~(Registered(s, p) /\ can_sync(s.peers[p])) THEN s
    ELSE IF pkt.malformed THEN Log(s, "malformed", p, "")
    ELSE
      LET s1 == [s EXCEPT
                   !.peers[p].difficulty =
                       IF @ = None \/ pkt.difficulty > @
                       THEN pkt.difficulty ELSE @,
                   !.peers[p].latest_hash = pkt.hash,
                   !.highest_block =
                       IF pkt.number > (IF @ = None THEN 0 ELSE @)
                       THEN pkt.number ELSE @]
          last_imported_number == s.new_blocks.l
      IN
      IF /\ last_imported_number > pkt.number
         /\ last_imported_number - pkt.number > MAX_NEW_BLOCK_AGE
      THEN DisablePeer(s1, p)
      ELSE
        LET s2 == Log(s1, "import_block", p, pkt.import)
            s3 == CASE pkt.import = "Ok" ->
                         [complete_sync(s2) EXCEPT
                            !.new_blocks = mark_as_known(@, pkt.number)]
                     [] pkt.import \in {"AlreadyInChain", "AlreadyQueued",
                                        "UnknownParent"} -> s2
                     [] OTHER -> DisablePeer(s2, p)
            s4 == IF pkt.import = "UnknownParent" /\ s3.state = "Idle"
                  THEN sync_peer(s3, i, p, FALSE) ELSE s3
        IN  continue_sync(s4, i)

\* on_peer_new_block that takes the number of every announced block for the
\* highest block
on_peer_new_block_latest(s, i, p, pkt) ==
    IF ~(Registered(s, p) /\ can_sync(s.peers[p])) THEN s
    ELSE IF pkt.malformed THEN Log(s, "malformed", p, "")
    ELSE
      LET s1 == [s EXCEPT
                   !.peers[p].difficulty =
                       IF @ = None \/ pkt.difficulty > @
                       THEN pkt.difficulty ELSE @,
                   !.peers[p].latest_hash = pkt.hash,
                   !.highest_block = pkt.number]
          last_imported_number == s.new_blocks.l
      IN
      IF /\ last_imported_number > pkt.number
         /\ last_imported_number - pkt.number > MAX_NEW_BLOCK_AGE
      THEN DisablePeer(s1, p)
      ELSE
        LET s2 == Log(s1, "import_block", p, pkt.import)
            s3 == CASE pkt.import = "Ok" ->
                         [complete_sync(s2) EXCEPT
                            !.new_blocks = mark_as_known(@, pkt.number)]
                     [] pkt.import \in {"AlreadyInChain", "AlreadyQueued",
                                        "UnknownParent"} -> s2
                     [] OTHER -> DisablePeer(s2, p)
            s4 == IF pkt.import = "UnknownParent" /\ s3.state = "Idle"
                  THEN sync_peer(s3, i, p, TRUE) ELSE s3
        IN  continue_sync(s4, i)

on_peer_new_block(s, i, p, pkt) ==
    IF ~(Registered(s, p) /\ can_sync(s.peers[p])) THEN s
    ELSE IF pkt.malformed THEN Log(s, "malformed", p, "")
    ELSE
      LET s1 == [s EXCEPT
                   !.peers[p].difficulty =
                       IF @ = None \/ pkt.difficulty > @
                       THEN pkt.difficulty ELSE @,
                   !.peers[p].latest_hash = pkt.hash,
                   !.highest_block =
                       IF pkt.number > (IF @ = None THEN 0 ELSE @)
                       THEN pkt.number ELSE @]
          last_imported_number == s.new_blocks.l
      IN
      IF /\ last_imported_number > pkt.number
         /\ last_imported_number - pkt.number > MAX_NEW_BLOCK_AGE
      THEN DisablePeer(s1, p)
      ELSE
        LET s2 == Log(s1, "import_block", p, pkt.import)
            s3 == CASE pkt.import = "Ok" ->
                         [complete_sync(s2) EXCEPT
                            !.new_blocks = mark_as_known(@, pkt.number)]
                     [] pkt.import \in {"AlreadyInChain", "AlreadyQueued",
                                        "UnknownParent"} -> s2
                     [] OTHER -> DisablePeer(s2, p)
            s4 == IF pkt.import = "UnknownParent" /\ s3.state = "Idle"
                  THEN sync_peer(s3, i, p, TRUE) ELSE s3
        IN  continue_sync(s4, i)

\* the loop of on_peer_new_hashes over the (hash, number) pairs; acc holds
\* the sync state, new_hashes, max_height and whether the loop returned
RECURSIVE new_hashes_loop(_, _, _)
new_hashes_loop(acc, p, entries) ==
    IF entries = <<>> \/ acc.returned THEN acc
    ELSE IF Len(entries) > 1
    THEN \* the first half of the pairs, then the second
      LET half == Len(entries) \div 2 IN
      new_hashes_loop(
          new_hashes_loop(acc, p, SubSeq(entries, 1, half)),
          p, SubSeq(entries, half + 1, Len(entries)))
    ELSE
      LET e == Head(entries)
          s == acc.s
          s1 == [s EXCEPT !.highest_block =
                    IF e.number > (IF @ = None THEN 0 ELSE @)
                    THEN e.number ELSE @]
          last_imported_number == s.new_blocks.l
          next ==
            IF is_downloading(s1.new_blocks, e.hash)
            THEN [acc EXCEPT !.s = s1]
            ELSE IF /\ last_imported_number > e.number
                    /\ last_imported_number - e.number > MAX_NEW_BLOCK_AGE
            THEN [acc EXCEPT !.s = DisablePeer(s1, p)]
            ELSE IF block_status(e.hash) \in {"InChain", "Queued"}
            THEN [acc EXCEPT !.s = s1]
            ELSE IF block_status(e.hash) \in {"Unknown", "Pending"}
            THEN [acc EXCEPT
                    !.s = IF e.number > acc.max_height
                          THEN [s1 EXCEPT !.peers[p].latest_hash = e.hash]
                          ELSE s1,
                    !.new_hashes = @ \cup {e.hash},
                    !.max_height = IF e.number > @ THEN e.number ELSE @]
            ELSE [acc EXCEPT !.s = DisablePeer(s1, p), !.returned = TRUE]
      IN  next

MaxNumber(entries) ==
    LET numbers == {0} \cup {entries[n].number : n \in DOMAIN entries}
    IN  CHOOSE m \in numbers : \A n \in numbers : m >= n

\* a handler that takes every sync for one that is already downloading
on_peer_new_hashes_seeking(s, i, p, pkt) ==
    IF ~(Registered(s, p) /\ can_sync(s.peers[p])) THEN s
    ELSE continue_sync([s EXCEPT !.peers[p].difficulty = None], i)

on_peer_new_hashes(s, i, p, pkt) ==
    IF ~(Registered(s, p) /\ can_sync(s.peers[p])) THEN s
    ELSE
      LET entries == SubSeq(pkt.entries, 1,
                            IF Len(pkt.entries) > MAX_NEW_HASHES
                            THEN MAX_NEW_HASHES ELSE Len(pkt.entries))
          s1 == [s EXCEPT
                   !.peers[p].difficulty = None,
                   !.peers[p].latest_hash =
                       IF entries /= <<>>
                       THEN entries[Len(entries)].hash ELSE @]
      IN
      IF s1.state /= "Idle"
      THEN continue_sync(
             [s1 EXCEPT !.highest_block =
                 IF MaxNumber(entries) > (IF @ = None THEN 0 ELSE @)
                 THEN MaxNumber(entries) ELSE @], i)
      ELSE
        LET acc == new_hashes_loop(
                     [s |-> s1, new_hashes |-> {}, max_height |-> 0,
                      returned |-> FALSE], p, entries)
        IN
        IF acc.returned THEN acc.s
        ELSE IF acc.max_height /= 0
        THEN continue_sync(
               sync_peer([acc.s EXCEPT
                            !.new_blocks = reset_to(@, acc.new_hashes),
                            !.state = "NewBlocks"], i, p, TRUE), i)
        ELSE continue_sync(acc.s, i)

on_snapshot_manifest(s, i, p, pkt) ==
    IF ~(Registered(s, p) /\ can_sync(s.peers[p])) THEN s
    ELSE
      LET s1 == clear_peer_download(s, p)
          asked == reset_peer_asking_ok(s1, p, "SnapshotManifest")
          s2 == reset_peer_asking(s1, p)
      IN
      IF ~asked \/ s2.state /= "SnapshotManifest" THEN continue_sync(s2, i)
      ELSE IF pkt.malformed THEN Log(s2, "malformed", p, "")
      ELSE IF pkt.bad THEN continue_sync(DisablePeer(s2, p), i)
      ELSE IF ~(pkt.version >= supported_versions[1] /\
                pkt.version <= supported_versions[2])
      THEN continue_sync(DisablePeer(s2, p), i)
      ELSE
        LET s3 == Log([s2 EXCEPT
                         !.snapshot = snapshot_reset_to(@, pkt.hash),
                         !.restoration = "Ongoing",
                         !.state = "SnapshotData"],
                      "begin_restore", p, "")
        IN  continue_sync(sync_peer(s3, i, p, FALSE), i)

\* on_snapshot_data that does not wait for the restoration when the last
\* chunk has arrived
on_snapshot_data_unfinished(s, i, p, pkt) ==
    IF ~(Registered(s, p) /\ can_sync(s.peers[p])) THEN s
    ELSE
      LET s1 == clear_peer_download(s, p)
          asked == reset_peer_asking_ok(s1, p, "SnapshotData")
          s2 == reset_peer_asking(s1, p)
      IN
      IF ~asked \/ s2.state \notin {"SnapshotData", "SnapshotWaiting"}
      THEN continue_sync(s2, i)
      ELSE IF s2.restoration \in {"Inactive", "Failed"}
      THEN
        LET s3 == [s2 EXCEPT
                     !.state = "WaitingPeers",
                     !.snapshot =
                        IF s2.snapshot.hash /= None /\ s2.restoration = "Failed"
                        THEN snapshot_clear(note_bad(@, s2.snapshot.hash))
                        ELSE snapshot_clear(@)]
        IN  continue_sync(s3, i)
      ELSE IF pkt.malformed THEN Log(s2, "malformed", p, "")
      ELSE
        LET result == validate_chunk(s2.snapshot, pkt.chunk) IN
        IF result[1] = "Err"
        THEN continue_sync(DisconnectPeer(s2, p), i)
        ELSE
          LET s3 == Log([s2 EXCEPT !.snapshot = result[2]],
                        "restore_chunk", p, "")
          IN  continue_sync(sync_peer(s3, i, p, FALSE), i)

on_snapshot_data(s, i, p, pkt) ==
    IF ~(Registered(s, p) /\ can_sync(s.peers[p])) THEN s
    ELSE
      LET s1 == clear_peer_download(s, p)
          asked == reset_peer_asking_ok(s1, p, "SnapshotData")
          s2 == reset_peer_asking(s1, p)
      IN
      IF ~asked \/ s2.state \notin {"SnapshotData", "SnapshotWaiting"}
      THEN continue_sync(s2, i)
      ELSE IF s2.restoration \in {"Inactive", "Failed"}
      THEN
        LET s3 == [s2 EXCEPT
                     !.state = "WaitingPeers",
                     !.snapshot =
                        IF s2.snapshot.hash /= None /\ s2.restoration = "Failed"
                        THEN snapshot_clear(note_bad(@, s2.snapshot.hash))
                        ELSE snapshot_clear(@)]
        IN  continue_sync(s3, i)
      ELSE IF pkt.malformed THEN Log(s2, "malformed", p, "")
      ELSE
        LET result == validate_chunk(s2.snapshot, pkt.chunk) IN
        IF result[1] = "Err"
        THEN continue_sync(DisconnectPeer(s2, p), i)
        ELSE
          LET s3 == Log([s2 EXCEPT !.snapshot = result[2]],
                        "restore_chunk", p, "")
              s4 == IF snapshot_is_complete(s3.snapshot)
                    THEN [s3 EXCEPT !.state = "SnapshotWaiting"] ELSE s3
          IN  continue_sync(sync_peer(s4, i, p, FALSE), i)

\* Called by peer when it is disconnecting
on_peer_aborting(s, i, p) ==
    LET s0 == [s EXCEPT !.handshaking_peers = RemoveKey(@, p)] IN
    IF Registered(s0, p)
    THEN LET s1 == clear_peer_download(s0, p)
         IN  continue_sync([s1 EXCEPT !.peers = RemoveKey(@, p),
                                      !.active_peers = @ \ {p}], i)
    ELSE s0

\* send_status that leaves the snapshot fields out while ancient blocks are
\* downloaded
send_status_short(s, p, manifest) ==
    LET warp_protocol == p \in cfg.warp_peers /\ s.old_blocks = <<>>
    IN  [item_count |-> IF warp_protocol THEN 7 ELSE 5,
         protocol_version |-> IF warp_protocol THEN PAR_PROTOCOL_VERSION_2
                              ELSE ETH_PROTOCOL_VERSION_63,
         manifest_hash |-> IF ~warp_protocol THEN None
                           ELSE IF manifest = <<>> THEN 0
                           ELSE manifest[1].hash,
         block_number |-> IF ~warp_protocol THEN None
                          ELSE IF manifest = <<>> THEN 0
                          ELSE manifest[1].block_number]

\* the Status packet that we send; manifest is the snapshot service's
\* manifest (<<>> is None, <<m>> is Some(m)), 0 is the zero hash, and a
\* field that the packet does not have is None
send_status(s, p, manifest) ==
    LET warp_protocol == p \in cfg.warp_peers
        m == IF s.old_blocks /= <<>> THEN <<>> ELSE manifest
    IN  [item_count |-> IF warp_protocol THEN 7 ELSE 5,
         protocol_version |-> IF warp_protocol THEN PAR_PROTOCOL_VERSION_2
                              ELSE ETH_PROTOCOL_VERSION_63,
         manifest_hash |-> IF ~warp_protocol THEN None
                           ELSE IF m = <<>> THEN 0 ELSE m[1].hash,
         block_number |-> IF ~warp_protocol THEN None
                          ELSE IF m = <<>> THEN 0 ELSE m[1].block_number]

\* Called when a new peer is connected; send_ok is whether io.respond
\* succeeds
on_peer_connected(s, p, send_ok, manifest) ==
    IF ~send_ok THEN DisconnectPeer(s, p)
    ELSE [Log(s, "status", p, send_status(s, p, manifest)) EXCEPT
            !.handshaking_peers = (p :> Instant_now) @@ RemoveKey(@, p)]

\* on_peer_transactions that also skips the transaction of the largest size
on_peer_transactions_strict(s, i, p, pkt) ==
    IF i.qfull \/ s.state \notin {"Idle", "NewBlocks"} THEN s
    ELSE IF ~(Registered(s, p) /\ can_sync(s.peers[p])) THEN s
    ELSE IF pkt.malformed THEN Log(s, "malformed", p, "")
    ELSE Log(s, "queue_transactions", p,
             SelectSeq(pkt.txs,
                       LAMBDA tx : ~(tx.len >= MAX_TRANSACTION_SIZE)))

\* Called when peer sends us new transactions; the block queue is either
\* empty or full
on_peer_transactions(s, i, p, pkt) ==
    IF i.qfull \/ s.state \notin {"Idle", "NewBlocks"} THEN s
    ELSE IF ~(Registered(s, p) /\ can_sync(s.peers[p])) THEN s
    ELSE IF pkt.malformed THEN Log(s, "malformed", p, "")
    ELSE Log(s, "queue_transactions", p,
             SelectSeq(pkt.txs,
                       LAMBDA tx : ~(tx.len > MAX_TRANSACTION_SIZE)))

\* on_packet that disables the sender of a packet that failed to decode
on_packet_punishing(s, i, p, pkt) ==
    LET r == IF pkt.kind /= "Status" /\ ~Registered(s, p)
             THEN Log(s, "unexpected", p, pkt.kind)
             ELSE CASE pkt.kind = "Status" -> on_peer_status(s, i, p, pkt)
                    [] pkt.kind = "Transactions" ->
                         on_peer_transactions(s, i, p, pkt)
                    [] pkt.kind = "BlockHeaders" ->
                         on_peer_block_headers(s, i, p, pkt)
                    [] pkt.kind = "BlockBodies" ->
                         on_peer_block_bodies(s, i, p, pkt)
                    [] pkt.kind = "Receipts" ->
                         on_peer_block_receipts(s, i, p, pkt)
                    [] pkt.kind = "NewBlock" -> on_peer_new_block(s, i, p, pkt)
                    [] pkt.kind = "NewHashes" ->
                         on_peer_new_hashes(s, i, p, pkt)
                    [] pkt.kind = "SnapshotManifest" ->
                         on_snapshot_manifest(s, i, p, pkt)
                    [] pkt.kind = "SnapshotData" ->
                         on_snapshot_data(s, i, p, pkt)
                    [] OTHER -> s
    IN  IF \E n \in DOMAIN r.log : r.log[n].e = "malformed"
        THEN DisablePeer(r, p) ELSE r

on_packet(s, i, p, pkt) ==
    IF pkt.kind /= "Status" /\ ~Registered(s, p)
    THEN Log(s, "unexpected", p, pkt.kind)
    ELSE CASE pkt.kind = "Status" -> on_peer_status(s, i, p, pkt)
           [] pkt.kind = "Transactions" ->
                on_peer_transactions(s, i, p, pkt)
           [] pkt.kind = "BlockHeaders" -> on_peer_block_headers(s, i, p, pkt)
           [] pkt.kind = "BlockBodies" -> on_peer_block_bodies(s, i, p, pkt)
           [] pkt.kind = "Receipts" -> on_peer_block_receipts(s, i, p, pkt)
           [] pkt.kind = "NewBlock" -> on_peer_new_block(s, i, p, pkt)
           [] pkt.kind = "NewHashes" -> on_peer_new_hashes(s, i, p, pkt)
           [] pkt.kind = "SnapshotManifest" -> on_snapshot_manifest(s, i, p, pkt)
           [] pkt.kind = "SnapshotData" -> on_snapshot_data(s, i, p, pkt)
           [] OTHER -> s

\* the match on peer.asking with the receipts arm reading the bodies' timeout
timeout_receipts_as_bodies(peer) ==
    CASE peer.asking = "BlockHeaders" -> elapsed(peer.ask_time) > HEADERS_TIMEOUT
      [] peer.asking = "BlockBodies" -> elapsed(peer.ask_time) > BODIES_TIMEOUT
      [] peer.asking = "BlockReceipts" -> elapsed(peer.ask_time) > BODIES_TIMEOUT
      [] peer.asking = "Nothing" -> FALSE
      [] peer.asking = "ForkHeader" ->
             elapsed(peer.ask_time) > FORK_HEADER_TIMEOUT
      [] peer.asking = "SnapshotManifest" ->
             elapsed(peer.ask_time) > SNAPSHOT_MANIFEST_TIMEOUT
      [] peer.asking = "SnapshotData" ->
             elapsed(peer.ask_time) > SNAPSHOT_DATA_TIMEOUT

\* the match on peer.asking in maintain_peers
timeout(peer) ==
    CASE peer.asking = "BlockHeaders" -> elapsed(peer.ask_time) > HEADERS_TIMEOUT
      [] peer.asking = "BlockBodies" -> elapsed(peer.ask_time) > BODIES_TIMEOUT
      [] peer.asking = "BlockReceipts" ->
             elapsed(peer.ask_time) > RECEIPTS_TIMEOUT
      [] peer.asking = "Nothing" -> FALSE
      [] peer.asking = "ForkHeader" ->
             elapsed(peer.ask_time) > FORK_HEADER_TIMEOUT
      [] peer.asking = "SnapshotManifest" ->
             elapsed(peer.ask_time) > SNAPSHOT_MANIFEST_TIMEOUT
      [] peer.asking = "SnapshotData" ->
             elapsed(peer.ask_time) > SNAPSHOT_DATA_TIMEOUT

\* the handshake's test in maintain_peers
handshake_timeout(ask_time) ==
    (elapsed(ask_time) \div HANDSHAKE_DIVISOR) > STATUS_TIMEOUT

RECURSIVE disconnect_all(_, _)
disconnect_all(s, list) ==
    IF list = <<>> THEN s
    ELSE disconnect_all(DisconnectPeer(s, Head(list)), Tail(list))

RECURSIVE abort_all(_, _, _)
abort_all(s, i, list) ==
    IF list = <<>> THEN s
    ELSE abort_all(on_peer_aborting(s, i, Head(list)), i, Tail(list))

maintain_peers(s, i) ==
    LET TimedOut(p) == Registered(s, p) /\ timeout(s.peers[p])
        aborting == SelectSeq(i.ord, TimedOut)
        s1 == abort_all(disconnect_all(s, aborting), i, aborting)
        Late(p) == /\ p \in DOMAIN s1.handshaking_peers
                   /\ handshake_timeout(s1.handshaking_peers[p])
    IN  disconnect_all(s1, SelectSeq(i.ord, Late))

\* a sync that is never resumed
check_resume_paused(s, i) == s

check_resume(s, i) ==
    IF s.state = "Waiting" /\ ~i.qfull
    THEN continue_sync([s EXCEPT !.state = "Blocks"], i)
    ELSE IF s.state = "SnapshotWaiting"
    THEN CASE s.restoration = "Inactive" ->
                continue_sync(restart(s, i), i)
           [] s.restoration = "Ongoing" ->
                IF /\ ~snapshot_is_complete(s.snapshot)
                   /\ done_chunks(s.snapshot) - i.chunks_done
                          <= MAX_SNAPSHOT_CHUNKS_DOWNLOAD_AHEAD
                THEN continue_sync([s EXCEPT !.state = "SnapshotData"], i)
                ELSE s
           [] OTHER ->
                continue_sync([s EXCEPT !.state = "WaitingPeers",
                                        !.snapshot = snapshot_clear(@)], i)
    ELSE s

\* Maintain other peers
maintain_sync(s, i) == check_resume(maybe_start_snapshot_sync(s, i), i)

----------------------------------------------------------------------------
(* SyncPropagator: the gossip of the ready transactions *)

\* (x as f64).powf(0.5).round(): the integer nearest to the square root
sqrt_round(n) ==
    CHOOSE r \in 0..n :
        /\ r = 0 \/ (2 * r - 1) * (2 * r - 1) <= 4 * n
        /\ 4 * n < (2 * r + 1) * (2 * r + 1)

\* (x as f64).powf(0.5) cut to an integer instead of rounded
sqrt_floor(n) ==
    CHOOSE r \in 0..n : r * r <= n /\ n < (r + 1) * (r + 1)

\* select_random_peers that cuts the square root instead of rounding it
select_random_peers_floor(list, shuffled) ==
    LET min(a, b) == IF a <= b THEN a ELSE b
        max(a, b) == IF a >= b THEN a ELSE b
        count == max(min(sqrt_floor(Len(list)), MAX_PEERS_PROPAGATION),
                     MIN_PEERS_PROPAGATION)
    IN  SubSeq(shuffled, 1, min(count, Len(shuffled)))

\* take sqrt(x) peers; shuffled is the list as the random generator leaves
\* it, and truncate() cuts it to count peers if it is longer
select_random_peers(list, shuffled) ==
    LET min(a, b) == IF a <= b THEN a ELSE b
        max(a, b) == IF a >= b THEN a ELSE b
        count == max(min(sqrt_round(Len(list)), MAX_PEERS_PROPAGATION),
                     MIN_PEERS_PROPAGATION)
    IN  SubSeq(shuffled, 1, min(count, Len(shuffled)))

\* the peers in list are sent what they have not been sent: everything if a
\* peer has been sent nothing so far, otherwise the transactions new to it
RECURSIVE propagate_transactions_to_peers(_, _)
propagate_transactions_to_peers(s, list) ==
    IF list = <<>> THEN s
    ELSE
      LET p == Head(list)
          to_send ==
              IF s.peers[p].last_sent_transactions = {}
              THEN s.ready_transactions
              ELSE s.ready_transactions \ s.peers[p].last_sent_transactions
      IN  propagate_transactions_to_peers(
              IF to_send = {} THEN s
              ELSE Log([s EXCEPT !.peers[p].last_sent_transactions =
                           (s.ready_transactions \cap @) \cup to_send],
                       "transactions", p, to_send),
              Tail(list))

\* propagates new transactions to all peers while they are few, otherwise to
\* those that the random generator lets through; the event "returned" holds
\* the number of peers that have been sent a packet
propagate_new_transactions(s, i, lucky) ==
    IF DOMAIN s.peers = {} \/ s.ready_transactions = {}
    THEN Log(s, "returned", 0, 0)
    ELSE
      LET Chosen(p) ==
              /\ p \in DOMAIN s.peers
              /\ \/ Cardinality(DOMAIN s.peers) < MIN_PEERS_PROPAGATION
                 \/ p \in lucky
          Packets(w) == SelectSeq(w.log, LAMBDA ev : ev.e = "transactions")
          s1 == propagate_transactions_to_peers(s, SelectSeq(i.ord, Chosen))
      IN  Log(s1, "returned", 0, Len(Packets(s1)) - Len(Packets(s)))

\* SyncStatus::is_syncing
is_syncing(s, i) == i.qfull \/ s.state \notin {"Idle", "NewBlocks"}

\* chain_new_blocks that goes on with the sync before it restarts
chain_new_blocks_late_restart(s, i, invalid, enacted, peer) ==
    LET s1 == IF ~is_syncing(s, i) THEN Log(s, "propagate", 0, "") ELSE s
        s2 == IF invalid THEN restart(continue_sync(s1, i), i) ELSE s1
    IN  IF ~is_syncing(s, i) /\ enacted /\ peer \in DOMAIN s2.peers
        THEN [s2 EXCEPT !.peers[peer].last_sent_transactions = {}]
        ELSE s2

\* chain_new_blocks that has a peer sent every transaction again after any
\* import, whether a block has been enacted or not
chain_new_blocks_rebroadcast(s, i, invalid, enacted, peer) ==
    LET s1 == IF ~is_syncing(s, i) THEN Log(s, "propagate", 0, "") ELSE s
        s2 == IF invalid THEN restart(s1, i) ELSE s1
    IN  IF ~is_syncing(s, i) /\ peer \in DOMAIN s2.peers
        THEN [s2 EXCEPT !.peers[peer].last_sent_transactions = {}]
        ELSE s2

\* called when block is imported to chain; peer is the peer that the random
\* generator draws
chain_new_blocks(s, i, invalid, enacted, peer) ==
    LET s1 == IF ~is_syncing(s, i) THEN Log(s, "propagate", 0, "") ELSE s
        s2 == IF invalid THEN restart(s1, i) ELSE s1
    IN  IF ~is_syncing(s, i) /\ enacted /\ peer \in DOMAIN s2.peers
        THEN [s2 EXCEPT !.peers[peer].last_sent_transactions = {}]
        ELSE s2

\* ChainSync::new that warps when the configured block is the best block
new_from_best_block(config) ==
    [state |-> IF \/ config.warp_sync = "Enabled"
                  \/ (/\ config.warp_sync = "OnlyAndAfter"
                      /\ config.warp_block >= chain_info.best_block_number)
               THEN "WaitingPeers" ELSE "Idle",
     highest_block |-> None,
     peers |-> EmptyMap,
     handshaking_peers |-> EmptyMap,
     active_peers |-> {},
     new_blocks |-> NewDownloader(FALSE, 1, chain_info.best_block_number),
     old_blocks |->
         IF config.download_old_blocks
         THEN <<NewDownloader(TRUE, chain_info.ancient_block_hash,
                              chain_info.ancient_block_number)>>
         ELSE <<>>,
     snapshot |-> NewSnapshot({}),
     sync_start_time |-> None]

\* ChainSync::new
new(config) ==
    [state |-> IF \/ config.warp_sync = "Enabled"
                  \/ (/\ config.warp_sync = "OnlyAndAfter"
                      /\ config.warp_block > chain_info.best_block_number)
               THEN "WaitingPeers" ELSE "Idle",
     highest_block |-> None,
     peers |-> EmptyMap,
     handshaking_peers |-> EmptyMap,
     active_peers |-> {},
     new_blocks |-> NewDownloader(FALSE, 1, chain_info.best_block_number),
     old_blocks |->
         IF config.download_old_blocks
         THEN <<NewDownloader(TRUE, chain_info.ancient_block_hash,
                              chain_info.ancient_block_number)>>
         ELSE <<>>,
     snapshot |-> NewSnapshot({}),
     sync_start_time |-> None]

----------------------------------------------------------------------------
(* The environment: configurations, packets and what a call reads *)

\* a configuration: the SyncConfig, the peers that exist, how the clock
\* advances and the packets that the peers send
Config(fork, warp, old, ids, ticks, queue, menu) ==
    [fork_block |-> fork, fork_number |-> 50,
     warp_sync |-> warp, warp_block |-> 0,
     download_old_blocks |-> old,
     \* the chunks of the manifest, and how many of them the snapshot service
     \* may report as restored
     chunks |-> NumChunks, progress |-> {0},
     \* the peers that negotiate the warp protocol
     warp_peers |-> IF warp = "Disabled" THEN {} ELSE ids,
     peer_ids |-> ids, ticks |-> ticks, queue_full |-> queue, menu |-> menu]

\* block download from two peers that may misbehave
BlocksMenu ==
    {"st_eth", "st_par", "st_genesis", "st_malformed",
     "headers", "headers_empty", "headers_bad", "headers_collect_invalid",
     "bodies", "bodies_empty", "bodies_bad"}

\* ancient blocks, with their receipts, from peers that are level with us
AncientMenu ==
    {"st_synced", "headers_old", "headers_malformed", "bodies",
     "bodies_collect_invalid", "receipts", "receipts_bad"}

\* fork check and warp sync
WarpMenu ==
    {"st_par", "st_eth", "st_network", "st_version",
     "headers", "headers_empty", "headers_fork_mismatch",
     "manifest", "manifest_bad", "manifest_version", "chunk", "chunk_bad"}

\* announcements and transactions of one peer, with a block queue that fills
AnnounceMenu ==
    {"st_eth", "st_synced", "headers", "bodies", "nb_ok", "nb_unknown",
     "nb_bad", "nb_ancient", "nh_new", "nh_bad", "transactions"}

\* two peers that are level with us and serve ancient headers
AncientPairMenu == {"st_synced", "headers_old"}

Configs ==
    {Config(FALSE, "Disabled", FALSE, PairIds, {}, {FALSE}, BlocksMenu),
     Config(FALSE, "Disabled", TRUE, PairIds, {}, {FALSE}, AncientPairMenu),
     Config(FALSE, "Disabled", TRUE, {1}, {}, {FALSE}, AncientMenu),
     Config(TRUE, "Enabled", FALSE, {1}, {MaxTime}, {FALSE}, WarpMenu),
     Config(FALSE, "Disabled", FALSE, {1}, {}, BOOLEAN, AnnounceMenu),
     Config(FALSE, "Enabled", TRUE, {1}, {}, {FALSE},
            {"st_par", "headers_old", "manifest"}),
     \* a snapshot of MaxChunks chunks that is restored more slowly than it
     \* is downloaded
     [Config(FALSE, "Enabled", FALSE, {1}, {MaxTime}, {FALSE},
             {"st_par", "manifest", "manifest_other", "chunk", "chunk_more"})
         EXCEPT !.chunks = MaxChunks, !.progress = {0, 2}],
     \* a peer that comes back with another snapshot after a restoration has
     \* failed, and sends the manifest of the one that failed
     [Config(FALSE, "OnlyAndAfter", FALSE, {1}, {MaxTime}, {FALSE},
             {"st_par", "st_par_other", "manifest", "chunk"})
         EXCEPT !.warp_block = chain_info.best_block_number + 1]}

\* one peer, and a clock that advances in steps of TickStep seconds
TickStep == 5
TimeMenu ==
    {"st_par", "st_synced", "headers", "headers_old", "headers_empty",
     "bodies", "receipts", "manifest", "chunk"}
ConfigsTime ==
    {Config(TRUE, "Enabled", FALSE, {1}, {TickStep}, {FALSE}, TimeMenu),
     Config(FALSE, "Disabled", TRUE, {1}, {TickStep}, {FALSE}, TimeMenu)}
    \cup
    \* warp sync is mandatory, from a block that the peer's snapshot is
    \* above, or is not
    {[Config(FALSE, "OnlyAndAfter", FALSE, {1}, {TickStep}, {FALSE},
             {"st_par", "manifest"})
         EXCEPT !.warp_block = b] :
        b \in {chain_info.best_block_number + 1,
               chain_info.best_block_number + SNAPSHOT_RESTORE_THRESHOLD + 1}}

StatusPacket(tag, version, warp, difficulty, latest_hash) ==
    [kind |-> "Status", tag |-> tag, malformed |-> tag = "st_malformed",
     item_count |-> IF warp THEN 7 ELSE 5,
     genesis_ok |-> tag /= "st_genesis", network_ok |-> tag /= "st_network",
     protocol_version |-> version, difficulty |-> difficulty,
     latest_hash |-> latest_hash,
     snapshot_hash |-> IF warp THEN 1 ELSE None,
     snapshot_number |->
         IF warp
         THEN chain_info.best_block_number + SNAPSHOT_RESTORE_THRESHOLD + 1
         ELSE None]

StatusPackets ==
    {StatusPacket("st_eth", ETH_PROTOCOL_VERSION_63, FALSE, 2, NumHashes),
     StatusPacket("st_synced", ETH_PROTOCOL_VERSION_62, FALSE,
                  chain_info.pending_total_difficulty,
                  chain_info.best_block_hash),
     StatusPacket("st_par", PAR_PROTOCOL_VERSION_2, TRUE, 2, NumHashes),
     \* a peer that advertises another snapshot
     [StatusPacket("st_par_other", PAR_PROTOCOL_VERSION_2, TRUE, 2, NumHashes)
         EXCEPT !.snapshot_hash = 2],
     StatusPacket("st_genesis", ETH_PROTOCOL_VERSION_63, TRUE, 2,
                  NumHashes),
     StatusPacket("st_network", PAR_PROTOCOL_VERSION_1, TRUE, 2,
                  NumHashes),
     StatusPacket("st_version", PAR_PROTOCOL_VERSION_3 + 1, TRUE, 2,
                  NumHashes),
     StatusPacket("st_malformed", ETH_PROTOCOL_VERSION_63, FALSE, 2,
                  NumHashes)}

BlockPacket(kind, tag, items, bad, fork_match, collect_invalid, malformed) ==
    [kind |-> kind, tag |-> tag, malformed |-> malformed, items |-> items,
     bad |-> bad, fork_match |-> fork_match,
     collect_invalid |-> collect_invalid]

HeadersPackets ==
    {BlockPacket("BlockHeaders", "headers", {h}, FALSE, TRUE, FALSE, FALSE) :
        h \in NewHashes}
    \cup
    {BlockPacket("BlockHeaders", "headers_old", {h}, FALSE, TRUE, FALSE, FALSE) :
        h \in OldHashes}
    \cup
    {BlockPacket("BlockHeaders", "headers_empty", {}, FALSE, TRUE, FALSE, FALSE),
     BlockPacket("BlockHeaders", "headers_fork_mismatch", {1}, FALSE, FALSE,
                 FALSE, FALSE),
     BlockPacket("BlockHeaders", "headers_bad", {1}, TRUE, TRUE, FALSE, FALSE),
     BlockPacket("BlockHeaders", "headers_collect_invalid", {1}, FALSE, TRUE,
                 TRUE, FALSE),
     BlockPacket("BlockHeaders", "headers_malformed", {1}, FALSE, TRUE, FALSE,
                 TRUE)}

BodiesPackets ==
    {BlockPacket("BlockBodies", "bodies", Hashes, FALSE, TRUE, FALSE, FALSE),
     BlockPacket("BlockBodies", "bodies_empty", {}, FALSE, TRUE, FALSE, FALSE),
     BlockPacket("BlockBodies", "bodies_bad", Hashes, TRUE, TRUE, FALSE, FALSE),
     BlockPacket("BlockBodies", "bodies_collect_invalid", Hashes, FALSE, TRUE,
                 TRUE, FALSE)}

ReceiptsPackets ==
    {BlockPacket("Receipts", "receipts", Hashes, FALSE, TRUE, FALSE, FALSE),
     BlockPacket("Receipts", "receipts_bad", Hashes, TRUE, TRUE, FALSE, FALSE)}

NewBlockPacket(tag, number, import) ==
    [kind |-> "NewBlock", tag |-> tag, malformed |-> FALSE, difficulty |-> 2,
     hash |-> NumHashes, number |-> number, import |-> import]

NewBlockPackets ==
    {NewBlockPacket("nb_ok", chain_info.best_block_number + 1, "Ok"),
     NewBlockPacket("nb_unknown", chain_info.best_block_number + 1,
                    "UnknownParent"),
     NewBlockPacket("nb_bad", chain_info.best_block_number + 1, "Bad"),
     NewBlockPacket("nb_ancient",
                    chain_info.best_block_number - MAX_NEW_BLOCK_AGE - 1, "Ok")}

NewHashesPackets ==
    {[kind |-> "NewHashes", tag |-> "nh_new",
      entries |-> <<[hash |-> 1,
                     number |-> chain_info.best_block_number + 1]>>],
     [kind |-> "NewHashes", tag |-> "nh_bad",
      entries |-> <<[hash |-> BadHash,
                     number |-> chain_info.best_block_number + 1]>>],
     \* an unknown hash followed by a bad one
     [kind |-> "NewHashes", tag |-> "nh_mixed",
      entries |-> <<[hash |-> 1,
                     number |-> chain_info.best_block_number + 1],
                    [hash |-> BadHash,
                     number |-> chain_info.best_block_number + 2]>>],
     \* MAX_NEW_HASHES hashes of the chain followed by an unknown one
     [kind |-> "NewHashes", tag |-> "nh_long",
      entries |-> [n \in 1..(MAX_NEW_HASHES + 1) |->
                     IF n <= MAX_NEW_HASHES
                     THEN [hash |-> chain_info.best_block_hash,
                           number |-> chain_info.best_block_number]
                     ELSE [hash |-> 1,
                           number |-> chain_info.best_block_number + 1]]]}

ManifestPacket(tag, bad, version) ==
    [kind |-> "SnapshotManifest", tag |-> tag, malformed |-> FALSE,
     bad |-> bad, version |-> version, hash |-> 1]

ManifestPackets ==
    {ManifestPacket("manifest", FALSE, supported_versions[2]),
     ManifestPacket("manifest_bad", TRUE, supported_versions[2]),
     ManifestPacket("manifest_version", FALSE, supported_versions[2] + 1),
     \* a manifest that is not the one that the peers advertise
     [ManifestPacket("manifest_other", FALSE, supported_versions[2])
         EXCEPT !.hash = 2]}

SnapshotDataPackets ==
    {[kind |-> "SnapshotData",
      tag |-> IF c <= NumChunks THEN "chunk" ELSE "chunk_more",
      malformed |-> FALSE, chunk |-> c] : c \in 1..MaxChunks}
    \cup {[kind |-> "SnapshotData", tag |-> "chunk_bad", malformed |-> FALSE,
           chunk |-> 0]}

\* the lists of at most MaxTxs transactions, each known by its place; the
\* encoded length of a transaction is small, the largest that is accepted or
\* the smallest that is skipped
TxLists ==
    LET TxSizes == {1, MAX_TRANSACTION_SIZE, MAX_TRANSACTION_SIZE + 1} IN
    UNION {{[n \in 1..len |-> [id |-> n, len |-> sizes[n]]] :
               sizes \in [1..len -> TxSizes]} : len \in 0..MaxTxs}

OtherPackets ==
    {[kind |-> "Transactions", tag |-> "transactions", malformed |-> FALSE,
      txs |-> txs] : txs \in TxLists}
    \cup {[kind |-> "Transactions", tag |-> "transactions_malformed",
           malformed |-> TRUE, txs |-> <<>>]}

\* what SnapshotService::manifest() may return: None or the manifest of a
\* snapshot of ours
Manifests ==
    {<<>>, <<[hash |-> 1, block_number |-> chain_info.best_block_number]>>}

\* the orders in which a HashMap's iteration or a shuffle may yield the peers
Orders(ids) ==
    {o \in [1..Cardinality(ids) -> ids] :
        \A a, b \in 1..Cardinality(ids) : o[a] = o[b] => a = b}

\* what a handler reads from SyncIo during one call
Inputs ==
    {[qfull |-> q, ord |-> o, chunks_done |-> c, warp |-> cfg.warp_peers] :
        q \in cfg.queue_full, o \in Orders(cfg.peer_ids),
        c \in {chunks_done}}

\* the requests of the wire that a packet of this kind answers
Answers(kind) ==
    CASE kind = "BlockHeaders" -> {"ForkHeader", "BlockHeaders"}
      [] kind = "BlockBodies" -> {"BlockBodies"}
      [] kind = "Receipts" -> {"BlockReceipts"}
      [] kind = "SnapshotManifest" -> {"SnapshotManifest"}
      [] kind = "SnapshotData" -> {"SnapshotData"}
      [] OTHER -> {}

RECURSIVE RemoveFirst(_, _)
RemoveFirst(seq, S) ==
    IF seq = <<>> THEN <<>>
    ELSE IF Head(seq) \in S THEN Tail(seq)
    ELSE <<Head(seq)>> \o RemoveFirst(Tail(seq), S)

----------------------------------------------------------------------------
(* The state machine *)

\* the ChainSync fields and its collaborators, as a handler sees them
World ==
    [state |-> state, peers |-> peers, active_peers |-> active_peers,
     handshaking_peers |-> handshaking_peers, new_blocks |-> new_blocks,
     old_blocks |-> old_blocks, snapshot |-> snapshot,
     sync_start_time |-> sync_start_time, highest_block |-> highest_block,
     session |-> session, wire |-> wire, restoration |-> restoration,
     ready_transactions |-> ready_transactions, log |-> <<>>]

\* the events that are lines of the debug log only
SilentEvents == {"unexpected", "malformed"}

\* the call's effect becomes the next state; a call that changed nothing and
\* did nothing but write to the debug log leaves no trace
Commit(op, p, arg, s) ==
    IF /\ [s EXCEPT !.log = <<>>] = World
       /\ \A n \in 1..Len(s.log) : s.log[n].e \in SilentEvents
    THEN UNCHANGED vars
    ELSE
      /\ state' = s.state
      /\ peers' = s.peers
      /\ active_peers' = s.active_peers
      /\ handshaking_peers' = s.handshaking_peers
      /\ new_blocks' = s.new_blocks
      /\ old_blocks' = s.old_blocks
      /\ snapshot' = s.snapshot
      /\ sync_start_time' = s.sync_start_time
      /\ highest_block' = s.highest_block
      /\ session' = s.session
      /\ wire' = s.wire
      /\ restoration' = s.restoration
      /\ chunks_done' =
            IF \E n \in DOMAIN s.log : s.log[n].e = "begin_restore"
            THEN 0 ELSE chunks_done
      /\ ready_transactions' = s.ready_transactions
      /\ last' = [op |-> op, p |-> p, arg |-> arg, log |-> s.log]
      /\ UNCHANGED cfg

InitWith(configs) ==
    /\ cfg \in configs
    /\ LET sync == new(cfg) IN
       /\ state = sync.state
       /\ peers = sync.peers
       /\ active_peers = sync.active_peers
       /\ handshaking_peers = sync.handshaking_peers
       /\ new_blocks = sync.new_blocks
       /\ old_blocks = sync.old_blocks
       /\ snapshot = sync.snapshot
       /\ sync_start_time = sync.sync_start_time
       /\ highest_block = sync.highest_block
    /\ session = [p \in PeerIds |-> "closed"]
    /\ wire = [p \in PeerIds |-> <<>>]
    /\ restoration = "Inactive"
    /\ chunks_done = 0
    /\ ready_transactions = {}
    /\ last = [op |-> "new", p |-> 0, arg |-> "", log |-> <<>>]

Init == InitWith(Configs)

InitTime == InitWith(ConfigsTime)

\* the network layer opens a session, which takes the first free peer id,
\* and calls on_peer_connected
OnPeerConnected(p) ==
    /\ p \in cfg.peer_ids
    /\ session[p] = "closed"
    /\ \A q \in cfg.peer_ids : q < p => session[q] /= "closed"
    /\ \E send_ok \in BOOLEAN, manifest \in Manifests :
         Commit("on_peer_connected", p, "",
                on_peer_connected(
                    [World EXCEPT !.session[p] = "open", !.wire[p] = <<>>],
                    p, send_ok, manifest))

\* the packet leaves the wire, answering the first request it can answer,
\* and reaches on_packet
Deliver(p, pkt, i) ==
    on_packet([World EXCEPT !.wire[p] = RemoveFirst(@, Answers(pkt.kind))],
              i, p, pkt)

OnPacket(p, pkt) ==
    /\ session[p] \in {"open", "closing"}
    /\ pkt.tag \in cfg.menu
    /\ \E i \in Inputs :
         Commit("on_packet", p, IF pkt.kind = "Status" THEN pkt.tag ELSE "",
                Deliver(p, pkt, i))

\* the network layer reports the end of the session
OnPeerAborting(p) ==
    /\ session[p] \in {"open", "closing"}
    /\ \E i \in Inputs :
         Commit("on_peer_aborting", p, "",
                [on_peer_aborting(World, i, p) EXCEPT
                    !.session[p] = "closed", !.wire[p] = <<>>])

MaintainPeers ==
    \E i \in Inputs : Commit("maintain_peers", 0, "", maintain_peers(World, i))

MaintainSync ==
    \E i \in Inputs : Commit("maintain_sync", 0, "", maintain_sync(World, i))

ChainNewBlocks ==
    \E i \in Inputs, invalid \in BOOLEAN, enacted \in BOOLEAN :
        \E peer \in IF DOMAIN peers = {} THEN {0} ELSE DOMAIN peers :
            Commit("chain_new_blocks", 0, IF invalid THEN "invalid" ELSE "",
                   chain_new_blocks(World, i, invalid, enacted, peer))

\* the miner accepts a transaction
InsertTransaction ==
    \E tx \in TxHashes \ ready_transactions :
        Commit("insert_transaction", 0, "",
               [World EXCEPT !.ready_transactions = @ \cup {tx}])

PropagateNewTransactions ==
    \E i \in Inputs, lucky \in SUBSET cfg.peer_ids :
        Commit("propagate_new_transactions", 0, "",
               propagate_new_transactions(World, i, lucky))

Restart ==
    \E i \in Inputs : Commit("restart", 0, "", restart(World, i))

Abort ==
    \E i \in Inputs : Commit("abort", 0, "", abort(World, i))

\* the snapshot service restores chunks it has been given
RestorationProgresses ==
    /\ restoration = "Ongoing"
    /\ \E c \in cfg.progress :
          /\ c > chunks_done
          /\ c <= done_chunks(snapshot)
          /\ chunks_done' = c
    /\ UNCHANGED <<cfg, state, peers, active_peers, handshaking_peers,
                   new_blocks, old_blocks, snapshot, sync_start_time,
                   highest_block, session, wire, restoration,
                   ready_transactions, last>>

\* the snapshot service ends the restoration
RestorationEnds ==
    /\ restoration = "Ongoing"
    /\ \E r \in {"Inactive", "Failed"} :
         Commit("restoration", 0, r, [World EXCEPT !.restoration = r])

\* d seconds pass.  The ask_time of a peer that is asked nothing is read by
\* nobody before the next request overwrites it, and is left as it is.
Age(instant, d) ==
    IF instant = None THEN None
    ELSE IF instant + d > MaxTime THEN MaxTime ELSE instant + d

Tick ==
    \E d \in cfg.ticks :
        Commit("tick", 0, "",
               [World EXCEPT
                  !.peers = [p \in DOMAIN peers |->
                               IF peers[p].asking = "Nothing" THEN peers[p]
                               ELSE [peers[p] EXCEPT !.ask_time = Age(@, d)]],
                  !.handshaking_peers =
                      [p \in DOMAIN handshaking_peers |->
                         Age(handshaking_peers[p], d)],
                  !.sync_start_time = Age(@, d)])

Next ==
    \/ \E p \in PeerIds : OnPeerConnected(p)
    \/ \E p \in PeerIds : \E pkt \in StatusPackets : OnPacket(p, pkt)
    \/ \E p \in PeerIds : \E pkt \in HeadersPackets : OnPacket(p, pkt)
    \/ \E p \in PeerIds : \E pkt \in BodiesPackets : OnPacket(p, pkt)
    \/ \E p \in PeerIds : \E pkt \in ReceiptsPackets : OnPacket(p, pkt)
    \/ \E p \in PeerIds : \E pkt \in NewBlockPackets : OnPacket(p, pkt)
    \/ \E p \in PeerIds : \E pkt \in NewHashesPackets : OnPacket(p, pkt)
    \/ \E p \in PeerIds : \E pkt \in ManifestPackets : OnPacket(p, pkt)
    \/ \E p \in PeerIds : \E pkt \in SnapshotDataPackets : OnPacket(p, pkt)
    \/ \E p \in PeerIds : \E pkt \in OtherPackets : OnPacket(p, pkt)
    \/ \E p \in PeerIds : OnPeerAborting(p)
    \/ MaintainPeers
    \/ MaintainSync
    \/ ChainNewBlocks
    \/ Restart
    \/ Abort
    \/ RestorationEnds
    \/ RestorationProgresses
    \/ Tick

Spec == Init /\ [][Next]_vars

\* the timeouts of one peer
NextTime ==
    \/ OnPeerConnected(1)
    \/ \E pkt \in StatusPackets : OnPacket(1, pkt)
    \/ \E pkt \in HeadersPackets : OnPacket(1, pkt)
    \/ \E pkt \in BodiesPackets : OnPacket(1, pkt)
    \/ \E pkt \in ReceiptsPackets : OnPacket(1, pkt)
    \/ \E pkt \in ManifestPackets : OnPacket(1, pkt)
    \/ \E pkt \in SnapshotDataPackets : OnPacket(1, pkt)
    \/ OnPeerAborting(1)
    \/ MaintainPeers
    \/ MaintainSync
    \/ Tick

SpecTime == InitTime /\ [][NextTime]_vars

\* warp sync offered by three peers
ConfigsWarp ==
    {Config(FALSE, "Enabled", FALSE, PeerIds, {}, {FALSE},
            {"st_par", "nb_unknown", "manifest"})}

InitWarp == InitWith(ConfigsWarp)

NextWarp ==
    \/ \E p \in PeerIds : OnPeerConnected(p)
    \/ \E p \in PeerIds : \E pkt \in StatusPackets : OnPacket(p, pkt)
    \/ \E p \in PeerIds : \E pkt \in NewBlockPackets : OnPacket(p, pkt)
    \/ \E p \in PeerIds : \E pkt \in ManifestPackets : OnPacket(p, pkt)
    \/ \E p \in PeerIds : OnPeerAborting(p)
    \/ MaintainSync

SpecWarp == InitWarp /\ [][NextWarp]_vars

\* every setting of warp_sync, with a warp block below, at and above the best
\* block of the chain, and one peer; and warp sync disabled among three peers
\* that negotiate the warp protocol and advertise a snapshot
ConfigsStart ==
    {[Config(FALSE, warp, FALSE, {1}, {}, {FALSE},
             {"st_par", "nb_unknown", "manifest"})
         EXCEPT !.warp_block = chain_info.best_block_number + d] :
        warp \in {"Disabled", "Enabled", "OnlyAndAfter"}, d \in {-1, 0, 1}}
    \cup
    {[Config(FALSE, "Disabled", FALSE, PeerIds, {}, {FALSE},
             {"st_par", "manifest"})
         EXCEPT !.warp_peers = PeerIds]}

InitStart == InitWith(ConfigsStart)

SpecStart == InitStart /\ [][NextWarp]_vars

\* a full queue: three peers that agree on a snapshot while blocks are
\* synced, two peers that supply blocks, two that supply ancient blocks and
\* one whose snapshot is downloaded
ConfigsPause ==
    {[Config(FALSE, "OnlyAndAfter", FALSE, PeerIds, {}, BOOLEAN,
             {"st_par", "manifest"})
         EXCEPT !.warp_block = chain_info.best_block_number],
     Config(FALSE, "Disabled", FALSE, PairIds, {}, BOOLEAN,
            {"st_eth", "headers", "bodies"}),
     Config(FALSE, "Disabled", TRUE, PairIds, {}, BOOLEAN,
            {"st_synced", "st_eth", "headers_old", "bodies", "receipts"}),
     Config(FALSE, "Enabled", FALSE, {1}, {MaxTime}, {FALSE},
            {"st_par", "manifest", "chunk"})}

InitPause == InitWith(ConfigsPause)

NextPause ==
    \/ \E p \in PeerIds : OnPeerConnected(p)
    \/ \E p \in PeerIds : \E pkt \in StatusPackets : OnPacket(p, pkt)
    \/ \E p \in PeerIds : \E pkt \in HeadersPackets : OnPacket(p, pkt)
    \/ \E p \in PeerIds : \E pkt \in BodiesPackets : OnPacket(p, pkt)
    \/ \E p \in PeerIds : \E pkt \in ReceiptsPackets : OnPacket(p, pkt)
    \/ \E p \in PeerIds : \E pkt \in ManifestPackets : OnPacket(p, pkt)
    \/ \E p \in PeerIds : \E pkt \in SnapshotDataPackets : OnPacket(p, pkt)
    \/ MaintainSync
    \/ Tick

SpecPause == InitPause /\ [][NextPause]_vars

\* one peer whose requests a restart expires, with or without a fork block
\* to confirm, a clock whose tick lets every request time out, and the timer
\* that calls maintain_peers
ConfigsExpiry ==
    {Config(f, "Disabled", FALSE, {1}, {MaxTime}, {FALSE},
            {"st_eth", "headers", "headers_empty", "headers_fork_mismatch",
             "bodies"}) : f \in BOOLEAN}

InitExpiry == InitWith(ConfigsExpiry)

NextExpiry ==
    \/ OnPeerConnected(1)
    \/ \E pkt \in StatusPackets : OnPacket(1, pkt)
    \/ \E pkt \in HeadersPackets : OnPacket(1, pkt)
    \/ \E pkt \in BodiesPackets : OnPacket(1, pkt)
    \/ OnPeerAborting(1)
    \/ Restart
    \/ MaintainPeers
    \/ Tick

\* time passes, and the timer fires
SpecExpiry ==
    InitExpiry /\ [][NextExpiry]_vars /\ WF_vars(Tick) /\ WF_vars(MaintainPeers)


\* the gossip of transactions to two peers
ConfigsGossip ==
    {Config(FALSE, "Disabled", FALSE, PairIds, {}, {FALSE},
            {"st_eth", "st_synced"})}

InitGossip == InitWith(ConfigsGossip)

NextGossip ==
    \/ \E p \in PeerIds : OnPeerConnected(p)
    \/ \E p \in PeerIds : \E pkt \in StatusPackets : OnPacket(p, pkt)
    \/ \E p \in PeerIds : OnPeerAborting(p)
    \/ InsertTransaction
    \/ PropagateNewTransactions
    \/ ChainNewBlocks

SpecGossip == InitGossip /\ [][NextGossip]_vars

\* the results of random::new().shuffle(): every order of a short list, and
\* a long list turned by a few places
Shuffles(list) ==
    LET Rotate(k) ==
            [n \in 1..Len(list) |-> list[((n - 1 + k) % Len(list)) + 1]]
    IN  IF Len(list) <= MaxShuffled
        THEN {[n \in 1..Len(list) |-> list[o[n]]] :
                 o \in Orders(1..Len(list))}
        ELSE {Rotate(k) : k \in {0, 1, Len(list) - 1}}

\* the propagator has collected n eligible peers: a small number, or one
\* around the first whose square root is nearer to MAX_PEERS_PROPAGATION + 1
EligiblePeers ==
    /\ last.op \in {"new", "select_random_peers"}
    /\ \E n \in 0..MaxEligible
                \cup {MAX_PEERS_PROPAGATION * MAX_PEERS_PROPAGATION
                        + MAX_PEERS_PROPAGATION + d : d \in 0..1} :
          last' = [op |-> "eligible_peers", p |-> 0, arg |-> n,
                   log |-> [k \in 1..n |-> k]]
    /\ UNCHANGED <<cfg, state, peers, active_peers, handshaking_peers,
                   new_blocks, old_blocks, snapshot, sync_start_time,
                   highest_block, session, wire, restoration, chunks_done,
                   ready_transactions>>

\* and draws the recipients among them
SelectRandomPeers ==
    /\ last.op = "eligible_peers"
    /\ \E shuffled \in Shuffles(last.log) :
          last' = [op |-> "select_random_peers", p |-> 0, arg |-> last.arg,
                   log |-> select_random_peers(last.log, shuffled)]
    /\ UNCHANGED <<cfg, state, peers, active_peers, handshaking_peers,
                   new_blocks, old_blocks, snapshot, sync_start_time,
                   highest_block, session, wire, restoration, chunks_done,
                   ready_transactions>>

NextSelect == EligiblePeers \/ SelectRandomPeers

SpecSelect == InitGossip /\ [][NextSelect]_vars

----------------------------------------------------------------------------
(* Properties *)

\* the events of the last call
Events == {last.log[n] : n \in DOMAIN last.log}

\* C1: a request is sent to a peer only when no earlier request to that peer
\* is still unanswered on the wire, so that every registered peer has at most
\* one request outstanding.
C1_OneRequestOutstanding ==
    \A ev \in Events : ev.e = "send" => ~ev.w

\* the kinds of request that a downloader owns
BlockAskings == {"BlockHeaders", "BlockBodies", "BlockReceipts"}

\* C2: when a peer is expired with a block request outstanding, the packet
\* that answers the request is discarded: nothing of it is handed to
\* import_headers, import_bodies or import_receipts, and the peer is not
\* disabled because of it.
C2_ExpiredReplyDiscarded ==
    [][\A p \in DOMAIN peers :
          /\ peers[p].expired
          /\ peers[p].asking \in BlockAskings
          /\ wire[p] = <<peers[p].asking>>
          /\ last'.op = "on_packet"
          /\ last'.p = p
          => \A n \in DOMAIN last'.log :
                last'.log[n].p = p =>
                    last'.log[n].e \notin {"import", "disable"}]_vars

\* the peer's request, owned by the downloader of block set D, is for h: the
\* asking_hash of a headers request, the asking_blocks of a bodies or
\* receipts request (what clear_peer_download gives back for the request)
Carries(peer, D, h) ==
    /\ peer.block_set = D
    /\ \/ peer.asking = "BlockHeaders" /\ peer.asking_hash = h
       \/ peer.asking \in {"BlockBodies", "BlockReceipts"}
            /\ h \in peer.asking_blocks

Carriers(D, h) == {p \in DOMAIN peers : Carries(peers[p], D, h)}

\* C3: for each downloader and each hash, at most one registered peer
\* carries the hash in the request it has outstanding.
C3_NoDuplicateInFlight ==
    \A D \in BlockSets : \A h \in Hashes : Cardinality(Carriers(D, h)) <= 1

\* C4: every request other than the fork-header probe is sent to a peer that
\* can sync (Confirmed and not expired) when it is sent, and a NewBlock is
\* handed to the chain for import only from a peer that can sync.
C4_OnlyCanSyncPeersTakePart ==
    \A ev \in Events :
        /\ ev.e = "send" /\ ev.k /= "ForkHeader" => ev.c
        /\ ev.e = "import_block" => ev.c

\* the last call was chain_new_blocks with an invalid block
BadBlockReported == last.op = "chain_new_blocks" /\ last.arg = "invalid"

\* the call restarted the sync before it sent any request
RestartBeforeRequests ==
    \E r \in DOMAIN last.log :
        /\ last.log[r].e = "restart"
        /\ \A n \in DOMAIN last.log : last.log[n].e = "send" => r < n

\* a downloader as update_targets builds it, whatever it has handed out since
Unmarked(d) == [d EXCEPT !.dh = {}, !.db = {}, !.dr = {}]

DownloadersRebuilt ==
    /\ Unmarked(new_blocks) =
           NewDownloader(FALSE, 1, chain_info.best_block_number)
    /\ old_blocks /= <<>> <=> cfg.download_old_blocks
    /\ old_blocks /= <<>> =>
           Unmarked(old_blocks[1]) =
               NewDownloader(TRUE, chain_info.ancient_block_hash,
                             chain_info.ancient_block_number)

SnapshotCleared == snapshot = NewSnapshot(snapshot.bad)

\* the peer's request was in flight when the call began: the call sent it
\* nothing
InFlightBefore(p) ==
    /\ peers[p].asking /= "Nothing"
    /\ peers[p].block_set /= "OldBlocks"
    /\ \A ev \in Events : ~(ev.e = "send" /\ ev.p = p)

ResetAndNothingElse ==
    /\ \E ev \in Events : ev.e = "reset"
    /\ \A p \in DOMAIN peers : ~can_sync(peers[p])

LastPeerDisconnected == last.op = "on_peer_aborting" /\ DOMAIN peers = {}

\* C6: after a reset for a bad block, or for the disconnect of the last peer
\* during a sync, the state is WaitingPeers if warp sync is enabled and Idle
\* otherwise.
C6_StateAfterReset ==
    ResetAndNothingElse /\ (BadBlockReported \/ LastPeerDisconnected) =>
        state = IF cfg.warp_sync = "Disabled" THEN "Idle" ELSE "WaitingPeers"

\* the same for the configurations without warp sync
C6_StateAfterResetNoWarp ==
    /\ ResetAndNothingElse
    /\ BadBlockReported \/ LastPeerDisconnected
    /\ cfg.warp_sync = "Disabled"
    => state = "Idle"

\* what a peer is downloading: the markers that its request holds in the
\* downloaders and in the snapshot
Downloading(peer) ==
    CASE peer.asking = "BlockHeaders" /\ peer.asking_hash /= None ->
             {<<peer.block_set, "dh", peer.asking_hash>>}
      [] peer.asking = "BlockBodies" ->
             {<<peer.block_set, "db", h>> : h \in peer.asking_blocks}
      [] peer.asking = "BlockReceipts" ->
             {<<peer.block_set, "dr", h>> : h \in peer.asking_blocks}
      [] peer.asking = "SnapshotData" /\ peer.asking_snapshot_data /= None ->
             {<<"Snapshot", "downloading", peer.asking_snapshot_data>>}
      [] OTHER -> {}

\* the marker is set in the world s
Marked(s, m) ==
    CASE m[1] = "Snapshot" -> m[3] \in s.snapshot.downloading
      [] m[1] = "NewBlocks" -> m[3] \in s.new_blocks[m[2]]
      [] m[1] = "OldBlocks" ->
             s.old_blocks /= <<>> /\ m[3] \in s.old_blocks[1][m[2]]
      [] OTHER -> FALSE

\* in s, what the peer was downloading is free, or another peer has taken it
Released(s, peer) ==
    \A m \in Downloading(peer) :
        Marked(s, m) =>
            \E q \in DOMAIN s.peers : m \in Downloading(s.peers[q])

Disconnected(s, p) ==
    \E n \in DOMAIN s.log : s.log[n].e = "disconnect" /\ s.log[n].p = p

\* the timeout of each kind of request, in seconds
Threshold(asking) ==
    CASE asking = "BlockHeaders" -> 15
      [] asking = "BlockBodies" -> 20
      [] asking = "BlockReceipts" -> 10
      [] asking = "ForkHeader" -> 3
      [] asking = "SnapshotManifest" -> 5
      [] asking = "SnapshotData" -> 120

TimedOut(peer) ==
    peer.asking /= "Nothing" /\ elapsed(peer.ask_time) > Threshold(peer.asking)

\* C7: maintain_peers disconnects every registered peer whose request is
\* older than the timeout of its kind, removes it from peers and
\* active_peers and releases what it was downloading; it never times out a
\* peer that is asked nothing.
C7_TimeoutsDisconnect ==
    \A i \in Inputs :
        LET s == maintain_peers(World, i) IN
        \A p \in DOMAIN peers :
            /\ TimedOut(peers[p]) =>
                  /\ Disconnected(s, p)
                  /\ ~Registered(s, p)
                  /\ p \notin s.active_peers
                  /\ Released(s, peers[p])
            /\ peers[p].asking = "Nothing" =>
                  Registered(s, p) /\ ~Disconnected(s, p)

\* maintain_peers has disconnected a peer whose request had timed out
C7_Witness ==
    /\ last.op = "maintain_peers"
    /\ \E ev \in Events : ev.e = "disconnect"
    /\ DOMAIN peers = {}
    /\ active_peers = {}

\* C8: maintain_peers disconnects every peer that was sent our Status and
\* has not sent its own within 5 seconds.
C8_HandshakeTimeout ==
    \A i \in Inputs :
        LET s == maintain_peers(World, i) IN
        \A p \in DOMAIN handshaking_peers :
            elapsed(handshaking_peers[p]) > 5 => Disconnected(s, p)

\* the call left the sync state, the registry and the downloaders as they
\* were, and did nothing but write to the debug log
Untouched(s) ==
    /\ s.state = state
    /\ s.peers = peers
    /\ s.active_peers = active_peers
    /\ s.handshaking_peers = handshaking_peers
    /\ s.new_blocks = new_blocks
    /\ s.old_blocks = old_blocks
    /\ s.snapshot = snapshot
    /\ \A n \in DOMAIN s.log : s.log[n].e \in SilentEvents

\* every packet of the set, from the peer, is discarded
Discards(p, packets) ==
    \A pkt \in packets : \A i \in Inputs : Untouched(Deliver(p, pkt, i))

\* on_peer_aborting(p), in this state, leaves p in none of the registries
\* and releases what p was downloading
Forgotten(p) ==
    \A i \in Inputs :
        LET s == on_peer_aborting(World, i, p) IN
        /\ ~Registered(s, p)
        /\ p \notin s.active_peers
        /\ p \notin DOMAIN s.handshaking_peers
        /\ p \in DOMAIN peers => Released(s, peers[p])

\* every packet other than Status, from the peer, is discarded
DiscardsAll(p) ==
    /\ Discards(p, HeadersPackets)
    /\ Discards(p, BodiesPackets)
    /\ Discards(p, ReceiptsPackets)
    /\ Discards(p, NewBlockPackets)
    /\ Discards(p, NewHashesPackets)
    /\ Discards(p, ManifestPackets)
    /\ Discards(p, SnapshotDataPackets)
    /\ Discards(p, OtherPackets)

\* C9: on_peer_aborting(p) removes p from peers, active_peers and
\* handshaking_peers and releases what p was downloading; a packet other
\* than Status from a peer that is not registered changes nothing.
C9_AbortedPeerForgotten ==
    \A p \in PeerIds :
        Forgotten(p) /\ (p \notin DOMAIN peers => DiscardsAll(p))

\* the same in the states where every active peer is a registered one, as
\* it is until abort() empties the registry
C9_ForgottenIfRegistered ==
    active_peers \subseteq DOMAIN peers =>
        \A p \in PeerIds :
            Forgotten(p) /\ (p \notin DOMAIN peers => DiscardsAll(p))

\* the Status can be decoded in a session with or without the warp protocol
Decodable(st, warp) == ~st.malformed /\ (warp => st.item_count >= 7)

\* the Status is of another chain, of another network, or of a version that
\* the session's protocol does not have
Rejected(st, warp) ==
    \/ ~st.genesis_ok
    \/ ~st.network_ok
    \/ IF warp THEN st.protocol_version \notin {1, 2, 3}
       ELSE st.protocol_version \notin {62, 63}

Disabled(s, p) ==
    \E n \in DOMAIN s.log : s.log[n].e = "disable" /\ s.log[n].p = p

\* C10: a Status of the wrong genesis, the wrong network or an unsupported
\* version, from a peer that is not registered, disables the peer and leaves
\* peers, active_peers and the state as they were, and no request is sent;
\* a Status from a registered peer changes nothing.
C10_BadStatusRejected ==
    \A p \in PeerIds : \A st \in StatusPackets : \A i \in Inputs :
        LET s == Deliver(p, st, i) IN
        /\ /\ session[p] = "open"
           /\ p \notin DOMAIN peers
           /\ Decodable(st, p \in i.warp)
           /\ Rejected(st, p \in i.warp)
           => /\ Disabled(s, p)
              /\ s.peers = peers
              /\ s.active_peers = active_peers
              /\ s.state = state
              /\ \A n \in DOMAIN s.log : s.log[n].e /= "send"
        /\ p \in DOMAIN peers => Untouched(s)

\* a peer has sent such a Status: it is disabled and is not registered
C10_Witness ==
    /\ last.op = "on_packet"
    /\ last.arg \in {"st_genesis", "st_network", "st_version"}
    /\ \E ev \in Events : ev.e = "disable" /\ ev.p = last.p
    /\ last.p \notin DOMAIN peers
    /\ session[last.p] = "closing"

\* a reply of two headers
headers_two ==
    BlockPacket("BlockHeaders", "headers_two", Hashes, FALSE, TRUE, FALSE,
                FALSE)

\* the requests that the call has sent
Sent(s) ==
    SelectSeq(s.log, LAMBDA ev : ev.e = "send")

\* the peer has been registered by on_peer_status and nothing else has run
Admitted(p, st, i) ==
    [World EXCEPT
        !.handshaking_peers = RemoveKey(@, p),
        !.sync_start_time = IF @ = None THEN Instant_now ELSE @,
        !.peers = (p :> NewPeerInfo(st, p \in i.warp)) @@ @,
        !.active_peers = @ \cup {p}]

\* C11: with a fork block, the peer that a Status registers is Unconfirmed
\* and is sent one request, for the fork header; a reply of one header of
\* the fork hash makes it Confirmed, one header of another hash disables it,
\* and a reply of no header or of two makes it TooShort.  Without a fork
\* block the peer is registered Confirmed and sync_peer runs at once.
C11_ForkConfirmation ==
    \A p \in cfg.peer_ids : \A i \in Inputs :
        /\ \A st \in StatusPackets :
             LET s == Deliver(p, st, i) IN
             p \notin DOMAIN peers /\ Registered(s, p) =>
                IF cfg.fork_block
                THEN /\ s.peers[p].confirmation = "Unconfirmed"
                     /\ s.peers[p].asking = "ForkHeader"
                     /\ Len(Sent(s)) = 1
                     /\ Sent(s)[1].p = p
                     /\ Sent(s)[1].k = "ForkHeader"
                ELSE /\ s.peers[p].confirmation = "Confirmed"
                     /\ s = sync_peer(Admitted(p, st, i), i, p, FALSE)
        /\ \A pkt \in HeadersPackets \cup {headers_two} :
             LET s == Deliver(p, pkt, i) IN
             /\ p \in DOMAIN peers
             /\ peers[p].asking = "ForkHeader"
             /\ ~pkt.malformed
             => CASE Cardinality(pkt.items) = 1 /\ pkt.fork_match ->
                       s.peers[p].confirmation = "Confirmed"
                  [] Cardinality(pkt.items) = 1 /\ ~pkt.fork_match ->
                       /\ Disabled(s, p)
                       /\ s.peers[p].confirmation = peers[p].confirmation
                  [] OTHER -> s.peers[p].confirmation = "TooShort"

\* a header of the fork hash has confirmed the peer
C11_Witness ==
    /\ cfg.fork_block
    /\ last.op = "on_packet"
    /\ last.p \in DOMAIN peers
    /\ peers[last.p].confirmation = "Confirmed"
    /\ peers[last.p].asking /= "ForkHeader"

\* the peer advertises the snapshot h, far enough above our best block and
\* above the fork block and the expected warp block
Advertises(s, q, h) ==
    /\ Registered(s, q)
    /\ s.peers[q].snapshot_hash = h
    /\ s.peers[q].snapshot_number /= None
    /\ s.peers[q].snapshot_number - chain_info.best_block_number > 30000
    /\ s.peers[q].snapshot_number >
           (IF cfg.fork_block THEN cfg.fork_number ELSE 0)
    /\ s.peers[q].snapshot_number >
           (IF cfg.warp_sync = "OnlyAndAfter" THEN cfg.warp_block ELSE 0)

Advertisers(s, h) == {q \in DOMAIN s.peers : Advertises(s, q, h)}

\* the advertiser is allowed, the snapshot is not known to be bad and it is
\* at most 30 000 blocks below the highest block that has been announced
Qualifies(s, q, h) ==
    /\ Advertises(s, q, h)
    /\ is_allowed(s.peers[q])
    /\ ~is_known_bad(s.snapshot, h)
    /\ \/ s.highest_block = None
       \/ /\ s.highest_block >= s.peers[q].snapshot_number
          /\ s.highest_block - s.peers[q].snapshot_number <= 30000

Qualifiers(s, h) == {q \in DOMAIN s.peers : Qualifies(s, q, h)}

ManifestAsked(s, q) ==
    \E n \in DOMAIN s.log :
        /\ s.log[n].e = "send"
        /\ s.log[n].p = q
        /\ s.log[n].k = "SnapshotManifest"

nb_unknown_low ==
    [NewBlockPacket("nb_unknown_low", chain_info.best_block_number + 1,
                    "UnknownParent")
       EXCEPT !.difficulty = chain_info.pending_total_difficulty]

UnknownParentPackets ==
    {pkt \in NewBlockPackets : pkt.import = "UnknownParent"}
    \cup {nb_unknown_low}

\* the peer can be asked for blocks: it can sync, is active and is asked nothing
Free(p) ==
    /\ p \in DOMAIN peers
    /\ can_sync(peers[p])
    /\ p \in active_peers
    /\ peers[p].asking = "Nothing"

\* the first request of the call goes to p
AskedFirst(s, p) == Sent(s) /= <<>> /\ Sent(s)[1].p = p

Submitted(s) ==
    SelectSeq(s.log, LAMBDA ev : ev.e = "queue_transactions")

\* C14: a Transactions packet is submitted to the chain only if the state is
\* Idle or NewBlocks, the block queue is empty and the sender is registered
\* and can sync; what is submitted is, in the order of the packet, the
\* transactions of at most 300 KiB; otherwise nothing is submitted.  The
\* state and the peer records are as before in both cases.
C14_TransactionsWhenSynced ==
    \A p \in cfg.peer_ids : \A pkt \in OtherPackets : \A i \in Inputs :
        LET s == Deliver(p, pkt, i)
            accepted == /\ state \in {"Idle", "NewBlocks"}
                        /\ ~i.qfull
                        /\ p \in DOMAIN peers
                        /\ can_sync(peers[p])
        IN
        /\ accepted /\ ~pkt.malformed =>
              /\ Len(Submitted(s)) = 1
              /\ Submitted(s)[1].p = p
              /\ Submitted(s)[1].k =
                    SelectSeq(pkt.txs, LAMBDA tx : tx.len <= 300 * 1024)
        /\ ~accepted => Submitted(s) = <<>>
        /\ s.state = state
        /\ s.peers = peers

\* a packet with a transaction of 300 KiB and one above has been submitted
C14_Witness ==
    /\ last.op = "on_packet"
    /\ \E ev \in Events :
          /\ ev.e = "queue_transactions"
          /\ ev.p = last.p
          /\ Len(ev.k) = 1
          /\ ev.k[1].id = 2
          /\ ev.k[1].len = 300 * 1024

\* the Transactions packets that the call has sent
TransactionsSent(s) == SelectSeq(s.log, LAMBDA ev : ev.e = "transactions")

\* what the call of propagate_new_transactions has returned
Returned(s) == s.log[Len(s.log)].k

\* C15: a call of propagate_new_transactions that follows another with no
\* transaction added in between sends no packet and returns 0, also with a
\* chain_new_blocks of no enacted block in between; after one transaction
\* has been added the next call sends each peer one packet, with that
\* transaction alone if the peer had been sent the others, and the call
\* after that sends none.
C15_GossipDeduplicated ==
    \A i \in Inputs : \A lucky \in SUBSET cfg.peer_ids :
        LET Call(s) ==
                propagate_new_transactions([s EXCEPT !.log = <<>>], i, lucky)
            first == Call(World)
            Silent(s) == TransactionsSent(s) = <<>> /\ Returned(s) = 0
        IN
        /\ Silent(Call(first))
        /\ \A peer \in PeerIds :
              Silent(Call(chain_new_blocks(first, i, FALSE, FALSE, peer)))
        /\ \A tx \in TxHashes \ ready_transactions :
              LET more == Call([first EXCEPT !.ready_transactions =
                                                @ \cup {tx}])
              IN  /\ \A p \in DOMAIN peers :
                        \E n \in DOMAIN more.log :
                           /\ more.log[n].e = "transactions"
                           /\ more.log[n].p = p
                           /\ tx \in more.log[n].k
                           /\ ready_transactions /= {} =>
                                 more.log[n].k = {tx}
                           /\ \A m \in DOMAIN more.log :
                                 /\ more.log[m].e = "transactions"
                                 /\ more.log[m].p = p
                                 => m = n
                  /\ Returned(more) = Cardinality(DOMAIN peers)
                  /\ Silent(Call(more))

\* a call has sent nothing to peers that hold every ready transaction
C15_Witness ==
    /\ last.op = "propagate_new_transactions"
    /\ Len(last.log) = 1
    /\ last.log[1].e = "returned"
    /\ last.log[1].k = 0
    /\ ready_transactions /= {}
    /\ DOMAIN peers /= {}
    /\ \A p \in DOMAIN peers :
          peers[p].last_sent_transactions = ready_transactions

Smaller(a, b) == IF a <= b THEN a ELSE b
Larger(a, b) == IF a >= b THEN a ELSE b

\* the recipients are members of the list of n peers, each once
DistinctMembers(list, n) ==
    /\ \A a \in DOMAIN list : list[a] \in 1..n
    /\ \A a, b \in DOMAIN list : list[a] = list[b] => a = b

\* r is the integer nearest to the square root of n
NearestToRoot(r, n) ==
    /\ r \in 0..n
    /\ r * r - r < n \/ (r = 0 /\ n = 0)
    /\ n <= r * r + r

\* C16 as stated: of N eligible peers min(128, max(4, round(sqrt(N)))) are
\* chosen, and they are distinct members of the list.
C16_RecipientsClamped ==
    last.op = "select_random_peers" =>
        /\ \E r \in 0..last.arg :
              /\ NearestToRoot(r, last.arg)
              /\ Len(last.log) = Smaller(128, Larger(4, r))
        /\ DistinctMembers(last.log, last.arg)

\* C16 for a list that may be short: of N eligible peers
\* min(N, 128, max(4, round(sqrt(N)))) are chosen, and they are distinct
\* members of the list.
C16_RecipientsClampedToList ==
    last.op = "select_random_peers" =>
        /\ \E r \in 0..last.arg :
              /\ NearestToRoot(r, last.arg)
              /\ Len(last.log) = Smaller(last.arg, Smaller(128, Larger(4, r)))
        /\ DistinctMembers(last.log, last.arg)

\* 128 of more than 128 * 128 + 128 peers have been chosen
C16_Witness ==
    /\ last.op = "select_random_peers"
    /\ last.arg > 128 * 128 + 128
    /\ Len(last.log) = 128

\* C17 as stated: the Status that we send has 7 elements if the peer has
\* negotiated the warp protocol and no ancient blocks are downloaded, and 5
\* elements otherwise.
C17_SevenWithoutAncientBlocks ==
    \A p \in cfg.peer_ids : \A manifest \in Manifests :
        send_status(World, p, manifest).item_count =
            IF p \in cfg.warp_peers /\ old_blocks = <<>> THEN 7 ELSE 5

\* C17 with the packet that the code builds: the Status has 7 elements if the
\* peer has negotiated the warp protocol and 5 otherwise; the two snapshot
\* elements are the hash and the block number of our manifest if there is
\* one and no ancient blocks are downloaded, and the zero hash and 0 if not.
C17_SevenWithWarpProtocol ==
    \A p \in cfg.peer_ids : \A manifest \in Manifests :
        LET packet == send_status(World, p, manifest) IN
        IF p \in cfg.warp_peers
        THEN /\ packet.item_count = 7
             /\ IF old_blocks = <<>> /\ manifest /= <<>>
                THEN /\ packet.manifest_hash = manifest[1].hash
                     /\ packet.block_number = manifest[1].block_number
                ELSE /\ packet.manifest_hash = 0
                     /\ packet.block_number = 0
        ELSE /\ packet.item_count = 5
             /\ packet.manifest_hash = None
             /\ packet.block_number = None

\* a warp peer has been sent a Status of 7 elements that hides our snapshot
\* while ancient blocks are downloaded
C17_Witness ==
    /\ last.op = "on_peer_connected"
    /\ old_blocks /= <<>>
    /\ \E ev \in Events :
          /\ ev.e = "status"
          /\ ev.p \in cfg.warp_peers
          /\ ev.k.item_count = 7
          /\ ev.k.manifest_hash = 0

\* the replies to the block requests, with a Receipts packet of no entries
ReplyPackets ==
    HeadersPackets \cup BodiesPackets \cup ReceiptsPackets
    \cup {BlockPacket("Receipts", "receipts_empty", {}, FALSE, TRUE, FALSE,
                      FALSE)}

Imported(s, p) ==
    \E n \in DOMAIN s.log : s.log[n].e = "import" /\ s.log[n].p = p

RoundOver(s) ==
    \E n \in DOMAIN s.log : s.log[n].e = "reset"

\* the block set of the reply of peer p
ReplySet(p) ==
    IF peers[p].block_set /= "None" THEN peers[p].block_set ELSE "NewBlocks"

\* what the downloader answers to the reply of peer p
ImportResult(p, pkt) ==
    LET d == downloader_of(World, ReplySet(p)) IN
    CASE pkt.kind = "BlockHeaders" ->
           import_headers(d, pkt, peers[p].asking_hash)[1]
      [] pkt.kind = "BlockBodies" -> import_bodies(d, pkt)[1]
      [] OTHER -> import_receipts(d, pkt)[1]

\* a bodies or receipts reply of no entries that answers a request
EmptyReply(p, pkt) ==
    /\ p \in DOMAIN peers
    /\ \/ pkt.kind = "BlockBodies" /\ peers[p].asking = "BlockBodies"
       \/ pkt.kind = "Receipts" /\ peers[p].asking = "BlockReceipts"
    /\ ~pkt.malformed
    /\ pkt.items = {}

MalformedPackets ==
    {[pkt EXCEPT !.malformed = TRUE] :
        pkt \in StatusPackets \cup HeadersPackets \cup BodiesPackets
                \cup ReceiptsPackets \cup NewBlockPackets
                \cup ManifestPackets \cup SnapshotDataPackets
                \cup OtherPackets}

DecodeFailed(s) ==
    \E n \in DOMAIN s.log : s.log[n].e = "malformed"

C20_InitialState ==
    last.op = "new" =>
        /\ cfg.warp_sync = "Enabled" => state = "WaitingPeers"
        /\ cfg.warp_sync = "Disabled" => state = "Idle"
        /\ cfg.warp_sync = "OnlyAndAfter" =>
              IF cfg.warp_block > chain_info.best_block_number
              THEN state = "WaitingPeers" ELSE state = "Idle"
        /\ DOMAIN peers = {}
        /\ active_peers = {}
        /\ DOMAIN handshaking_peers = {}
        /\ highest_block = None

\* a ChainSync has been created with warp_sync OnlyAndAfter the block that
\* follows the best block, and waits for peers
C20_Witness ==
    /\ last.op = "new"
    /\ cfg.warp_sync = "OnlyAndAfter"
    /\ cfg.warp_block = chain_info.best_block_number + 1
    /\ state = "WaitingPeers"

\* more than WAIT_PEERS_TIMEOUT have passed since the first peer was accepted
WaitedForPeers ==
    /\ state = "WaitingPeers"
    /\ sync_start_time /= None
    /\ sync_start_time > 5

RestoreBegun(s) ==
    \E n \in DOMAIN s.log : s.log[n].e = "begin_restore"

\* the peer has been asked for the manifest and has not answered
AskedManifest(p) ==
    p \in DOMAIN peers /\ peers[p].asking = "SnapshotManifest"

SupportedVersion(pkt) ==
    pkt.version >= supported_versions[1] /\ pkt.version <= supported_versions[2]

WellFormedManifests == {pkt \in ManifestPackets : ~pkt.malformed}

\* C22: in SnapshotManifest, a manifest from a peer that was asked for it and
\* of a supported version seeds the snapshot downloader with the manifest,
\* begins the restoration and moves the state to SnapshotData; a manifest
\* that does not parse or is of an unsupported version disables the peer,
\* begins no restoration and does not move the state to SnapshotData; in
\* another state, or from a peer that was not asked, the manifest begins no
\* restoration, leaves the manifest and the chunks of the snapshot
\* downloader as they were and does not disable the peer.
C22_ManifestReply ==
    \A p \in cfg.peer_ids : \A pkt \in WellFormedManifests : \A i \in Inputs :
        session[p] \in {"open", "closing"} =>
        LET s == Deliver(p, pkt, i) IN
        IF state = "SnapshotManifest" /\ AskedManifest(p)
        THEN IF ~pkt.bad /\ SupportedVersion(pkt)
             THEN /\ RestoreBegun(s)
                  /\ s.snapshot.hash = pkt.hash
                  /\ s.snapshot.pending \cup s.snapshot.completed = ChunkHashes
                  /\ s.restoration = "Ongoing"
                  /\ s.state = "SnapshotData"
             ELSE /\ Disabled(s, p)
                  /\ ~RestoreBegun(s)
                  /\ s.state /= "SnapshotData"
        ELSE /\ ~RestoreBegun(s)
             /\ s.snapshot.hash = snapshot.hash
             /\ s.snapshot.pending = snapshot.pending
             /\ s.snapshot.completed = snapshot.completed
             /\ s.restoration = restoration
             /\ ~Disabled(s, p)

\* C22 for the peers that can sync: the same, with the manifest of a peer
\* that cannot sync among those that change nothing, and with the state
\* SnapshotData only if the manifest is the one the peer advertises (the
\* sync is completed, state Idle, if no peer can be asked for a chunk of it)
C22_ManifestReplyCanSync ==
    \A p \in cfg.peer_ids : \A pkt \in WellFormedManifests : \A i \in Inputs :
        session[p] \in {"open", "closing"} =>
        LET s == Deliver(p, pkt, i) IN
        IF state = "SnapshotManifest" /\ AskedManifest(p) /\ can_sync(peers[p])
        THEN IF ~pkt.bad /\ SupportedVersion(pkt)
             THEN /\ RestoreBegun(s)
                  /\ s.snapshot.hash = pkt.hash
                  /\ s.snapshot.pending \cup s.snapshot.completed = ChunkHashes
                  /\ s.restoration = "Ongoing"
                  /\ s.state \in {"SnapshotData", "Idle"}
                  /\ pkt.hash = peers[p].snapshot_hash =>
                        s.state = "SnapshotData"
             ELSE /\ Disabled(s, p)
                  /\ ~RestoreBegun(s)
                  /\ s.state /= "SnapshotData"
        ELSE /\ ~RestoreBegun(s)
             /\ s.snapshot.hash = snapshot.hash
             /\ s.snapshot.pending = snapshot.pending
             /\ s.snapshot.completed = snapshot.completed
             /\ s.restoration = restoration
             /\ ~Disabled(s, p)
             /\ p \in DOMAIN peers /\ ~can_sync(peers[p]) =>
                   s = [World EXCEPT !.wire[p] = s.wire[p]]

ChunkRestored(s) ==
    \E n \in DOMAIN s.log : s.log[n].e = "restore_chunk"

\* the chunk is the reply of a peer that can sync, to a request for snapshot
\* data, while the snapshot is downloaded and restored
ChunkExpected(p) ==
    /\ p \in DOMAIN peers
    /\ can_sync(peers[p])
    /\ peers[p].asking = "SnapshotData"
    /\ state \in {"SnapshotData", "SnapshotWaiting"}
    /\ restoration = "Ongoing"

\* C23: a chunk that the snapshot downloader validates is handed to the
\* snapshot service, and if it was the last chunk of the manifest the state
\* becomes SnapshotWaiting and the call sends no request; a chunk that fails
\* validation is not handed to the snapshot service, its sender is
\* disconnected, and the state and the chunks that remain to be restored are
\* as before.
C23_LastChunkWaits ==
    \A p \in cfg.peer_ids : \A pkt \in SnapshotDataPackets : \A i \in Inputs :
        session[p] \in {"open", "closing"} /\ ChunkExpected(p) =>
        LET s == Deliver(p, pkt, i) IN
        IF pkt.chunk \in snapshot.pending
        THEN /\ ChunkRestored(s)
             /\ s.snapshot.completed = snapshot.completed \cup {pkt.chunk}
             /\ snapshot.pending = {pkt.chunk} =>
                   /\ s.state = "SnapshotWaiting"
                   /\ Sent(s) = <<>>
        ELSE /\ ~ChunkRestored(s)
             /\ Disconnected(s, p)
             /\ s.state = state
             /\ s.snapshot.pending = snapshot.pending
             /\ s.snapshot.completed = snapshot.completed

\* the last chunk of the manifest has arrived and the sync waits for the
\* restoration
C23_Witness ==
    /\ last.op = "on_packet"
    /\ \E ev \in Events : ev.e = "restore_chunk" /\ ev.p = last.p
    /\ \A ev \in Events : ev.e /= "send"
    /\ snapshot.pending = {}
    /\ snapshot.completed = ChunkHashes
    /\ state = "SnapshotWaiting"

\* the chunks that have been downloaded and that the snapshot service has
\* not restored
Backlog(s, i) == done_chunks(s.snapshot) - i.chunks_done

ChunkAsked(s, q) ==
    \E n \in DOMAIN s.log :
        /\ s.log[n].e = "send"
        /\ s.log[n].p = q
        /\ s.log[n].k = "SnapshotData"

\* the calls that may hand out requests: every packet of every peer and the
\* tick of maintain_sync
FlowPackets == SnapshotDataPackets \cup ManifestPackets \cup StatusPackets

\* every request for a chunk of the call was sent with a backlog of at most
\* 3 chunks, to a peer that advertises the manifest that is restored
ChunksAskedInTurn(s, i) ==
    \A q \in DOMAIN s.peers :
        ChunkAsked(s, q) /\ s.restoration = "Ongoing" =>
            /\ Backlog(s, i) <= 3
            /\ s.peers[q].snapshot_hash = s.snapshot.hash

\* the chunk of the packet is validated and brings the backlog above 3
Congesting(p, pkt, i) ==
    /\ ChunkExpected(p)
    /\ state = "SnapshotData"
    /\ pkt.kind = "SnapshotData"
    /\ pkt.chunk \in snapshot.pending
    /\ Backlog(World, i) + 1 > 3

\* maintain_sync finds the backlog at most 3 and the download not complete
Relieved(i) ==
    /\ state = "SnapshotWaiting"
    /\ restoration = "Ongoing"
    /\ ~snapshot_is_complete(snapshot)
    /\ Backlog(World, i) <= 3

\* C24 as stated: while the restoration is ongoing a call asks a peer for a
\* chunk only if the backlog is at most 3 and the peer advertises the
\* manifest that is restored; a chunk that brings the backlog above 3
\* leaves the state SnapshotWaiting and no request is sent; in SnapshotWaiting
\* with the download not complete and a backlog of at most 3, maintain_sync
\* leaves the state SnapshotData.
C24_FlowControl ==
    \A i \in Inputs :
        /\ \A p \in cfg.peer_ids : \A pkt \in FlowPackets :
              session[p] \in {"open", "closing"} =>
                  ChunksAskedInTurn(Deliver(p, pkt, i), i)
        /\ \A p \in cfg.peer_ids : \A pkt \in SnapshotDataPackets :
              session[p] \in {"open", "closing"} /\ Congesting(p, pkt, i) =>
                  LET s == Deliver(p, pkt, i) IN
                  s.state = "SnapshotWaiting" /\ Sent(s) = <<>>
        /\ LET s == maintain_sync(World, i) IN
           /\ ChunksAskedInTurn(s, i)
           /\ Relieved(i) => s.state = "SnapshotData"

\* C24 where the download can go on: the same, with maintain_sync leaving
\* the state SnapshotData if it asks some peer for a chunk, and Idle, by
\* complete_sync, if no peer is left that it could ask.
C24_FlowControlWithPeer ==
    \A i \in Inputs :
        /\ \A p \in cfg.peer_ids : \A pkt \in FlowPackets :
              session[p] \in {"open", "closing"} =>
                  ChunksAskedInTurn(Deliver(p, pkt, i), i)
        /\ \A p \in cfg.peer_ids : \A pkt \in SnapshotDataPackets :
              session[p] \in {"open", "closing"} /\ Congesting(p, pkt, i) =>
                  LET s == Deliver(p, pkt, i) IN
                  s.state = "SnapshotWaiting" /\ Sent(s) = <<>>
        /\ LET s == maintain_sync(World, i) IN
           /\ ChunksAskedInTurn(s, i)
           /\ Relieved(i) =>
                 IF \E q \in DOMAIN s.peers :
                        s.peers[q].asking /= "Nothing" /\ can_sync(s.peers[q])
                 THEN s.state = "SnapshotData"
                 ELSE s.state = "Idle" /\ s.restoration = "Ongoing"

\* the download has paused with four chunks that wait to be restored and has
\* been resumed by maintain_sync, which has asked for the last chunk
C24_Witness ==
    /\ last.op = "maintain_sync"
    /\ state = "SnapshotData"
    /\ restoration = "Ongoing"
    /\ Cardinality(snapshot.completed) = 4
    /\ \E ev \in Events : ev.e = "send" /\ ev.k = "SnapshotData"

\* the snapshot downloader holds no manifest and no chunk
Cleared(sn) ==
    /\ sn.hash = None
    /\ sn.pending = {} /\ sn.downloading = {} /\ sn.completed = {}

\* a chunk reply through which on_snapshot_data reads the service's status
ChunkAwaited(p) ==
    /\ p \in DOMAIN peers
    /\ can_sync(peers[p])
    /\ peers[p].asking = "SnapshotData"
    /\ state \in {"SnapshotData", "SnapshotWaiting"}

\* C25 as stated: when the snapshot service reports Failed for the manifest
\* that is restored, the chunk reply that notices it, and maintain_sync that
\* notices it in SnapshotWaiting, note the manifest hash as bad, clear the
\* snapshot downloader and leave the state WaitingPeers.
C25_FailedRestoration ==
    \A i \in Inputs :
        restoration = "Failed" /\ snapshot.hash /= None =>
        /\ \A p \in cfg.peer_ids : \A pkt \in SnapshotDataPackets :
              session[p] \in {"open", "closing"} /\ ChunkAwaited(p) =>
                  LET s == Deliver(p, pkt, i) IN
                  /\ snapshot.hash \in s.snapshot.bad
                  /\ Cleared(s.snapshot)
                  /\ s.state = "WaitingPeers"
        /\ state = "SnapshotWaiting" =>
              LET s == maintain_sync(World, i) IN
              /\ snapshot.hash \in s.snapshot.bad
              /\ Cleared(s.snapshot)
              /\ s.state = "WaitingPeers"

\* C25 as the code does it: the chunk reply that notices the failure notes
\* the manifest hash as bad; maintain_sync that notices it in
\* SnapshotWaiting leaves the bad hashes as they were.  Both clear the
\* snapshot downloader and set WaitingPeers, from where the continue_sync of
\* the same call may start the next snapshot sync or the full sync.
C25_FailedRestorationNotedByReply ==
    \A i \in Inputs :
        restoration = "Failed" /\ snapshot.hash /= None =>
        /\ \A p \in cfg.peer_ids : \A pkt \in SnapshotDataPackets :
              session[p] \in {"open", "closing"} /\ ChunkAwaited(p) =>
                  LET s == Deliver(p, pkt, i) IN
                  /\ s.snapshot.bad = snapshot.bad \cup {snapshot.hash}
                  /\ Cleared(s.snapshot)
                  /\ s.state \notin {"SnapshotData", "SnapshotWaiting"}
        /\ state = "SnapshotWaiting" =>
              LET s == maintain_sync(World, i) IN
              /\ s.snapshot.bad = snapshot.bad
              /\ Cleared(s.snapshot)
              /\ s.state \notin {"SnapshotData", "SnapshotWaiting"}

\* maintain_sync has noticed the failed restoration and has asked again for
\* the manifest of the snapshot that failed
C25_Witness ==
    /\ last.op = "maintain_sync"
    /\ restoration = "Failed"
    /\ state = "SnapshotManifest"
    /\ snapshot.bad = {}
    /\ \E ev \in Events : ev.e = "send" /\ ev.k = "SnapshotManifest"

\* C26 as stated: no call asks for the manifest of a peer that advertises a
\* snapshot whose hash has been noted bad, and no call begins the
\* restoration of a snapshot whose hash has been noted bad.
C26_BadHashNeverAgain ==
    \A ev \in Events :
        /\ ev.e = "send" /\ ev.k = "SnapshotManifest" /\ ev.p \in DOMAIN peers
           => peers[ev.p].snapshot_hash \notin snapshot.bad
        /\ ev.e = "begin_restore" => snapshot.hash \notin snapshot.bad

\* C26 for the requests: no call asks for the manifest of a peer that
\* advertises a snapshot whose hash has been noted bad, and a hash that has
\* been noted bad stays noted in every call.
C26_BadHashNotRequested ==
    /\ \A ev \in Events :
          ev.e = "send" /\ ev.k = "SnapshotManifest" /\ ev.p \in DOMAIN peers
          => peers[ev.p].snapshot_hash \notin snapshot.bad
    /\ \A i \in Inputs :
          /\ snapshot.bad \subseteq maintain_sync(World, i).snapshot.bad
          /\ snapshot.bad \subseteq restart(World, i).snapshot.bad
          /\ snapshot.bad \subseteq abort(World, i).snapshot.bad
          /\ \A invalid, enacted \in BOOLEAN :
                snapshot.bad \subseteq
                    chain_new_blocks(World, i, invalid, enacted, 0).snapshot.bad
          /\ \A p \in cfg.peer_ids :
                /\ snapshot.bad \subseteq on_peer_aborting(World, i, p).snapshot.bad
                /\ \A pkt \in FlowPackets :
                      snapshot.bad \subseteq Deliver(p, pkt, i).snapshot.bad

\* a peer that advertises the bad snapshot is registered, the wait for peers
\* has timed out and the sync has gone on without asking it for the manifest
C26_Witness ==
    /\ last.op = "on_packet" /\ last.arg = "st_par"
    /\ last.p \in DOMAIN peers
    /\ peers[last.p].snapshot_hash \in snapshot.bad
    /\ is_allowed(peers[last.p])
    /\ peers[last.p].asking = "Nothing"
    /\ WaitedForPeers

\* a registered peer that has no request outstanding and may be synced with,
\* while blocks are being synced
IdlePeer(p) ==
    /\ state \in {"Idle", "Blocks", "NewBlocks"}
    /\ Registered(World, p)
    /\ peers[p].asking = "Nothing"
    /\ can_sync(peers[p])

\* the inputs in which the chain client's queue reports full
QueueFull == {i \in Inputs : i.qfull}

\* sync_peer has something to gain from the peer: the caller forces it, the
\* peer's difficulty is unknown or higher than ours, or ancient blocks are
\* being downloaded
WorthSyncing(p, force) ==
    \/ force
    \/ peers[p].difficulty = None
    \/ peers[p].difficulty > chain_info.pending_total_difficulty
    \/ old_blocks /= <<>>

\* C27 as stated: sync_peer on an idle can_sync peer in Idle, Blocks or
\* NewBlocks with the queue full moves the state to Waiting and asks the
\* peer for nothing.
C27_QueueFullPauses ==
    \A p \in cfg.peer_ids : \A i \in QueueFull : \A force \in BOOLEAN :
        IdlePeer(p) =>
        LET s == sync_peer(World, i, p, force) IN
        /\ s.state = "Waiting"
        /\ Sent(s) = <<>>
        /\ s.peers[p].asking = "Nothing"

\* C27 amended: sync_peer on an idle can_sync peer in Idle, Blocks or
\* NewBlocks with the queue full asks the peer for nothing; it moves the
\* state to Waiting if the peer is active and worth syncing with, and leaves
\* everything as it was otherwise.
C27_QueueFullPausesWorthy ==
    \A p \in cfg.peer_ids : \A i \in QueueFull : \A force \in BOOLEAN :
        IdlePeer(p) =>
        LET s == sync_peer(World, i, p, force) IN
        /\ Sent(s) = <<>>
        /\ s.peers[p].asking = "Nothing"
        /\ IF p \in active_peers /\ WorthSyncing(p, force)
           THEN s = [World EXCEPT !.state = "Waiting"]
           ELSE s = World

\* a peer ahead of us has sent its status while the queue was full, and the
\* sync is paused with nothing asked of it
C27_Witness ==
    /\ state = "Waiting"
    /\ last.op = "on_packet" /\ last.arg = "st_eth"
    /\ Registered(World, last.p)
    /\ peers[last.p].asking = "Nothing"
    /\ can_sync(peers[last.p])
    /\ last.p \in active_peers
    /\ Events = {}

\* the sync is paused, for the block queue or for the snapshot service
Paused == state \in {"Waiting", "SnapshotWaiting"}

\* the requests of the sync that a call has sent (the fork header confirms a
\* peer, whatever the state of the sync)
SyncRequests(s) ==
    SelectSeq(s.log, LAMBDA ev : ev.e = "send" /\ ev.k /= "ForkHeader")

PausePackets ==
    StatusPackets \cup ReplyPackets \cup ManifestPackets
    \cup SnapshotDataPackets \cup NewBlockPackets \cup NewHashesPackets

\* the call has ended the pause, by a reset of the sync, before it sent
\* anything
ResetFirst(s) ==
    \E n \in DOMAIN s.log :
        /\ s.log[n].e = "reset"
        /\ \A m \in 1..n : s.log[m].e /= "send"

\* while the sync is paused sync_peer skips every peer, no packet makes a
\* handler send a request unless it first resets the sync, and in Waiting no
\* reply is imported
PausedHandlers ==
    \A i \in Inputs : \A p \in cfg.peer_ids :
        /\ \A force \in BOOLEAN : sync_peer(World, i, p, force) = World
        /\ \A pkt \in PausePackets :
              session[p] \in {"open", "closing"} =>
              LET s == Deliver(p, pkt, i) IN
              /\ SyncRequests(s) = <<>> \/ ResetFirst(s)
              /\ state = "Waiting" /\ pkt \in ReplyPackets => ~Imported(s, p)

BlocksAsked(s) ==
    \E p \in DOMAIN s.peers :
        /\ s.peers[p].asking /= "Nothing"
        /\ s.peers[p].block_set /= "OldBlocks"
        /\ can_sync(s.peers[p])

\* C29 as stated: in Waiting, maintain_sync moves the state to Blocks when
\* the queue is not full, and leaves the state Waiting when it is full.
C29_ResumeToBlocks ==
    state = "Waiting" =>
        \A i \in Inputs :
            LET s == maintain_sync(World, i) IN
            IF i.qfull THEN s.state = "Waiting" ELSE s.state = "Blocks"

\* C29 amended: in Waiting, maintain_sync first lets
\* maybe_start_snapshot_sync start a snapshot sync that three peers agree
\* on, whatever the queue; otherwise it changes nothing while the queue is
\* full, and when the queue is not full it hands out requests from the state
\* Blocks, which lasts if a request for new blocks is outstanding and
\* becomes Idle (complete_sync) if none is.
C29_ResumeOrComplete ==
    state = "Waiting" =>
        \A i \in Inputs :
            LET s == maintain_sync(World, i)
                m == maybe_start_snapshot_sync(World, i)
            IN
            IF m.state /= "Waiting"
            THEN /\ s = m
                 /\ s.state \in {"SnapshotManifest", "SnapshotData"}
            ELSE IF i.qfull THEN s = World
            ELSE /\ s.state = IF BlocksAsked(s) THEN "Blocks" ELSE "Idle"
                 /\ \A ev \in {s.log[n] : n \in DOMAIN s.log} :
                       ev.e = "send" =>
                       ev.k \in {"BlockHeaders", "BlockBodies", "BlockReceipts"}
                 /\ (\E p \in DOMAIN peers :
                        /\ peers[p].asking = "Nothing"
                        /\ p \in active_peers
                        /\ sync_peer([World EXCEPT !.state = "Blocks"],
                                     i, p, FALSE).peers[p].asking /= "Nothing")
                    => Sent(s) /= <<>>

\* the queue has emptied and maintain_sync has resumed the sync with a
\* request for blocks
C29_Witness ==
    /\ last.op = "maintain_sync"
    /\ cfg.warp_sync = "Disabled"
    /\ state = "Blocks"
    /\ \E ev \in Events : ev.e = "send" /\ ev.k = "BlockHeaders"

\* the pairs of the packet that the handler reads
FirstPairs(pkt) ==
    SubSeq(pkt.entries, 1,
           IF Len(pkt.entries) > MAX_NEW_HASHES
           THEN MAX_NEW_HASHES ELSE Len(pkt.entries))

\* the hashes among them that the chain does not know
UnknownHashes(pkt) ==
    {FirstPairs(pkt)[n].hash : n \in
        {m \in DOMAIN FirstPairs(pkt) :
            block_status(FirstPairs(pkt)[m].hash) \in {"Unknown", "Pending"}}}

\* a pair the loop passes over before it asks the chain: its hash is being
\* downloaded, or its block is older than MAX_NEW_BLOCK_AGE
PassedOver(e) ==
    \/ is_downloading(new_blocks, e.hash)
    \/ /\ new_blocks.l > e.number
       /\ new_blocks.l - e.number > MAX_NEW_BLOCK_AGE

\* a bad hash ends the handling of the packet
HasBadHash(pkt) ==
    \E n \in DOMAIN FirstPairs(pkt) :
        /\ ~PassedOver(FirstPairs(pkt)[n])
        /\ block_status(FirstPairs(pkt)[n].hash) = "Bad"

\* the hashes that are staged
StagedHashes(pkt) ==
    {h \in UnknownHashes(pkt) :
        \E n \in DOMAIN FirstPairs(pkt) :
            /\ FirstPairs(pkt)[n].hash = h
            /\ ~PassedOver(FirstPairs(pkt)[n])}

\* the highest block number among them
HighestAnnounced(pkt) ==
    LET numbers == {0} \cup {FirstPairs(pkt)[n].number :
                                n \in DOMAIN FirstPairs(pkt)}
    IN  CHOOSE m \in numbers : \A n \in numbers : m >= n

\* the sender's record and highest_block after the packet: the difficulty is
\* unknown, the latest hash is the one given
Announced(p, pkt, latest) ==
    [World EXCEPT
       !.peers[p].difficulty = None,
       !.peers[p].latest_hash = latest,
       !.highest_block =
           IF HighestAnnounced(pkt) > (IF @ = None THEN 0 ELSE @)
           THEN HighestAnnounced(pkt) ELSE @]

\* the packet is handled as one that arrives while blocks are downloaded:
\* nothing is staged, the sender's latest hash is the last of the pairs
OnlyAnnounced(s, i, p, pkt) ==
    s = continue_sync(
          Announced(p, pkt, FirstPairs(pkt)[Len(FirstPairs(pkt))].hash), i)

\* the hashes are staged, the state is NewBlocks and sync_peer is forced on
\* the sender, whose latest hash becomes one of those staged
StagedFrom(s, i, p, pkt, hashes) ==
    \E h \in hashes :
        s = continue_sync(
              sync_peer([Announced(p, pkt, h) EXCEPT
                           !.new_blocks = reset_to(@, hashes),
                           !.state = "NewBlocks"], i, p, TRUE), i)

NewHashesFrom(p) ==
    /\ session[p] \in {"open", "closing"}
    /\ Registered(World, p)
    /\ can_sync(peers[p])

AfterOffers(i) ==
    LET CanSync(p) == Registered(World, p) /\ can_sync(peers[p])
    IN  sync_peers_in(World, i,
                      SortByVersion(World, SelectSeq(i.ord, CanSync)))

\* some peer that can sync has a request for other than ancient blocks in
\* flight
InFlight(s) ==
    \E p \in DOMAIN s.peers :
        /\ s.peers[p].asking /= "Nothing"
        /\ s.peers[p].block_set /= "OldBlocks"
        /\ can_sync(s.peers[p])

\* the number of times reset has run in the call
Resets(s) ==
    LET IsReset(ev) == ev.e = "reset" IN Len(SelectSeq(s.log, IsReset))

Rounds(i) == {continue_sync(World, i), maintain_sync(World, i)}

\* the requests of a call for blocks or chunks, in the order in which they
\* were sent; sync_peer sends them to the peer it visits
Requests(s) ==
    LET IsOffer(ev) ==
            /\ ev.e = "send"
            /\ ev.k \in {"BlockHeaders", "BlockBodies", "BlockReceipts",
                          "SnapshotData"}
    IN  SelectSeq(s.log, IsOffer)

\* C32 as stated: continue_sync visits the active can_sync peers so that a
\* peer of a higher protocol version comes before a peer of a lower one: of
\* two peers of different versions that a round asks for blocks or chunks,
\* the one of the higher version is asked first.
C32_HigherVersionFirst ==
    \A i \in Inputs : \A s \in Rounds(i) :
        LET asked == Requests(s) IN
        \A m, n \in DOMAIN asked :
            /\ m < n
            /\ peers[asked[m].p].protocol_version
                   /= peers[asked[n].p].protocol_version
            => peers[asked[m].p].protocol_version
                   > peers[asked[n].p].protocol_version

\* what the code does: of two peers that a round asks for blocks or chunks,
\* the one asked first has the lower version, or the same
C32_LowerVersionFirst ==
    \A i \in Inputs : \A s \in Rounds(i) :
        LET asked == Requests(s) IN
        \A m, n \in DOMAIN asked :
            m < n => peers[asked[m].p].protocol_version
                        <= peers[asked[n].p].protocol_version

\* C33 as stated: when abort returns the registry is empty, no peer is
\* active, the state is Idle, the snapshot downloader is cleared and the
\* call has left no request of its own with a peer.
C33_AbortStopsAll ==
    \A i \in Inputs :
        LET s == abort(World, i) IN
        /\ s.peers = EmptyMap
        /\ s.active_peers = {}
        /\ s.state = "Idle"
        /\ Cleared(s.snapshot)
        /\ Sent(s) = <<>>

\* what abort does: the registry is empty and the snapshot downloader
\* cleared, but the peers that were registered are all active, and the state
\* and the requests are those of the round that continue_sync started
\* before the registry was emptied
C33_AbortEmptiesRegistry ==
    \A i \in Inputs :
        LET s == abort(World, i) IN
        /\ s.peers = EmptyMap
        /\ Cleared(s.snapshot)
        /\ s.active_peers = DOMAIN peers
        /\ s.state \in {"Idle", "Blocks", "Waiting"}
        /\ s.state = "Blocks" => Sent(s) /= <<>>
        /\ s.state = "Waiting" => Sent(s) = <<>>

\* C34 as stated: every id in active_peers is a key of peers.
C34_ActiveAreRegistered == active_peers \subseteq DOMAIN peers

\* what the code keeps: every operation but abort leaves active_peers within
\* the registry if it was within it before
C34_ActiveStayRegistered ==
    [][/\ active_peers \subseteq DOMAIN peers
       /\ ~(last' /= last /\ last'.op = "abort")
       => active_peers' \subseteq DOMAIN peers']_vars

\* a registered peer whose request has expired
Expired(p) == p \in DOMAIN peers /\ peers[p].expired

\* an expired peer has a request in flight
ExpiredIsAsking ==
    \A p \in DOMAIN peers : peers[p].expired => peers[p].asking /= "Nothing"

\* C35: a registered peer that is expired has a request in flight, always;
\* and while time passes and the timer calls maintain_peers, a peer that is
\* expired does not stay so: its late reply clears the flag, or the timeout
\* of its request removes it from the registry.
C35_ExpiredNotForever ==
    /\ []ExpiredIsAsking
    /\ \A p \in PeerIds : Expired(p) ~> ~Expired(p)

\* the timer has disconnected a peer whose request had expired and timed out
C35_Witness ==
    /\ last.op = "maintain_peers"
    /\ \E ev \in Events : ev.e = "disconnect" /\ ~ev.c /\ ev.p \notin DOMAIN peers
    /\ cfg.fork_block = FALSE

\* a registered peer that awaits its fork confirmation and has not been
\* disabled or disconnected
Probationer(s, p) ==
    /\ p \in DOMAIN s.peers
    /\ s.peers[p].confirmation = "Unconfirmed"
    /\ s.session[p] = "open"

\* C36 as stated: every registered peer that is Unconfirmed and has not been
\* disabled has asking = ForkHeader.
C36_UnconfirmedAwaitsFork ==
    \A p \in DOMAIN peers :
        Probationer(World, p) => peers[p].asking = "ForkHeader"

\* the packets that on_packet hands to a handler other than the headers'
Unsolicited ==
    ManifestPackets \cup SnapshotDataPackets \cup NewBlockPackets
    \cup NewHashesPackets \cup OtherPackets

\* what the code does for a peer that awaits its fork header: a BlockBodies
\* or Receipts packet of that peer, which it was not asked for, frees its
\* request slot and leaves it Unconfirmed and not disabled; snapshot
\* packets, announcements and transactions of that peer, and every packet of
\* another peer, leave it waiting for the fork header.
C36_BodiesForgetForkHeader ==
    \A p \in cfg.peer_ids : \A i \in Inputs :
        Probationer(World, p) /\ peers[p].asking = "ForkHeader" =>
        /\ \A pkt \in BodiesPackets \cup ReceiptsPackets :
              LET s == Deliver(p, pkt, i) IN
              Probationer(s, p) /\ s.peers[p].asking = "Nothing"
        /\ \A pkt \in Unsolicited :
              LET s == Deliver(p, pkt, i) IN
              p \in DOMAIN s.peers /\ s.peers[p].asking = "ForkHeader"
        /\ \A q \in cfg.peer_ids \ {p} :
              \A pkt \in Unsolicited \cup ReplyPackets \cup StatusPackets :
                  session[q] \in {"open", "closing"} =>
                  LET s == Deliver(q, pkt, i) IN
                  p \in DOMAIN s.peers /\ s.peers[p].asking = "ForkHeader"

\* the states in which something is being downloaded
DownloadingStates == {"Blocks", "NewBlocks", "SnapshotManifest", "SnapshotData"}

\* some registered peer has a request in flight
SomeoneAsked == \E p \in DOMAIN peers : peers[p].asking /= "Nothing"

\* C37 as stated: when a public operation has returned and the state is
\* Blocks, NewBlocks, SnapshotManifest or SnapshotData, some registered peer
\* has a request in flight.
C37_NeverRestsDownloading == state \in DownloadingStates => SomeoneAsked

\* what the code keeps: every operation other than abort that enters one of
\* these states leaves a request in flight
C37_EntersDownloadingAsking ==
    [][/\ state \notin DownloadingStates
       /\ state' \in DownloadingStates
       /\ ~(last' /= last /\ last'.op = "abort")
       => SomeoneAsked']_vars

\* the states of a sync that downloads no snapshot
BlockStates == {"Idle", "Blocks", "NewBlocks", "Waiting"}

\* no request for a manifest or a chunk, and no restoration begun, among
\* the events of a call
NoSnapshotEvents(log) ==
    \A n \in DOMAIN log :
        /\ ~(log[n].e = "send" /\
               log[n].k \in {"SnapshotManifest", "SnapshotData"})
        /\ log[n].e /= "begin_restore"

\* C38: with warp_sync Disabled the state is always Idle, Blocks, NewBlocks or
\* Waiting, no call asks for a manifest or a chunk or begins a restoration,
\* and the same is true of the next call of maintain_sync and of the
\* handlers on every snapshot packet of every peer.
C38_DisabledNeverWarps ==
    cfg.warp_sync = "Disabled" =>
        /\ state \in BlockStates
        /\ NoSnapshotEvents(last.log)
        /\ restoration = "Inactive"
        /\ ~have_manifest(snapshot)
        /\ \A i \in Inputs :
              /\ maintain_sync(World, i).state \in BlockStates
              /\ NoSnapshotEvents(maintain_sync(World, i).log)
              /\ \A p \in cfg.peer_ids :
                    \A pkt \in ManifestPackets \cup SnapshotDataPackets :
                        session[p] \in {"open", "closing"} =>
                        LET s == Deliver(p, pkt, i) IN
                        /\ s.state \in BlockStates
                        /\ NoSnapshotEvents(s.log)
                        /\ ~have_manifest(s.snapshot)

\* warp sync is disabled while blocks are synced, three registered peers
\* advertise the same snapshot, far enough ahead of us, and one of them is
\* idle
C38_Witness ==
    /\ cfg.warp_sync = "Disabled"
    /\ Cardinality({p \in DOMAIN peers : SnapshotCandidate(World, p)})
           >= SNAPSHOT_MIN_PEERS
    /\ \E p \in DOMAIN peers : wire[p] = <<>> /\ peers[p].asking = "Nothing"
    /\ state \in {"Blocks", "Waiting"}

\* the block numbers that an announcement carries: the number of the header
\* of a NewBlock, the numbers of the first MAX_NEW_HASHES pairs of a
\* NewBlockHashes
AnnouncedNumbers(pkt) ==
    IF pkt.kind = "NewBlock" THEN {pkt.number}
    ELSE {pkt.entries[n].number :
            n \in {m \in DOMAIN pkt.entries : m <= MAX_NEW_HASHES}}

\* C39: highest_block never decreases and never returns to unset; a step
\* that changes it is the call of on_packet on a NewBlock or NewBlockHashes
\* packet that carries the new value, which is greater than the old one, so
\* that reset, restart, complete_sync, abort, the timers and the disconnects
\* leave it as it was.
C39_HighestBlockOnlyRises ==
    [][highest_block' /= highest_block =>
         /\ highest_block' /= None
         /\ highest_block = None \/ highest_block' > highest_block
         /\ last'.op = "on_packet"
         /\ \E pkt \in NewBlockPackets \cup NewHashesPackets :
               /\ highest_block' \in AnnouncedNumbers(pkt)
               /\ \E i \in Inputs :
                     Deliver(last'.p, pkt, i).highest_block = highest_block'
       ]_vars

\* the highest block has been raised to an announced block above the best
\* block, and a restart has left it there
C39_Witness ==
    /\ highest_block = chain_info.best_block_number + 1
    /\ last.op = "restart"
    /\ state = "Idle"

\* a NewBlock that the chain client imports, and NewBlocks that it has
\* already
ImportedBlocks == {pkt \in NewBlockPackets : pkt.tag = "nb_ok"}
KnownBlocks ==
    {NewBlockPacket("nb_in_chain", chain_info.best_block_number + 1,
                    "AlreadyInChain"),
     NewBlockPacket("nb_queued", chain_info.best_block_number + 1,
                    "AlreadyQueued")}

\* the handler passes the packet of peer p to the chain client
Importing(p, pkt) ==
    /\ session[p] \in {"open", "closing"}
    /\ Registered(World, p)
    /\ can_sync(peers[p])
    /\ ~(/\ new_blocks.l > pkt.number
          /\ new_blocks.l - pkt.number > MAX_NEW_BLOCK_AGE)

\* a peer whose request reset expires
Expiring(q) ==
    /\ peers[q].asking /= "Nothing"
    /\ peers[q].block_set /= "OldBlocks"
    /\ is_allowed(peers[q])

\* the round is aborted before any work is handed out: reset runs before
\* the first request of the call, the requests in flight are expired, every
\* peer is active, what the downloader had collected is gone and the block
\* is marked as known; the state is Idle unless the continue_sync that
\* follows has started a new round or found the queue full
RoundAborted(s, i, pkt) ==
    /\ Resets(s) >= 1
    /\ \A m \in DOMAIN s.log :
          s.log[m].e = "send" =>
              \E n \in 1..(m - 1) : s.log[n].e = "reset"
    /\ \A q \in DOMAIN peers :
          Expiring(q) => q \in DOMAIN s.peers /\ s.peers[q].expired
    /\ s.active_peers = DOMAIN peers
    /\ s.new_blocks.H = {} /\ s.new_blocks.R = {}
    /\ s.new_blocks.S = {s.new_blocks.anchor}
    /\ s.new_blocks.l = mark_as_known(new_blocks, pkt.number).l
    /\ \/ s.state = "Idle"
       \/ s.state = "Blocks" /\ Sent(s) /= <<>>
       \/ s.state = "Waiting" /\ i.qfull

\* nothing of the round is touched
RoundKept(s) ==
    /\ Resets(s) = 0
    /\ \A q \in DOMAIN peers :
          q \in DOMAIN s.peers /\ s.peers[q].expired = peers[q].expired
    /\ s.active_peers = active_peers
    /\ s.new_blocks.l = new_blocks.l
    /\ s.new_blocks.H = new_blocks.H /\ s.new_blocks.R = new_blocks.R

\* C40 as stated: a NewBlock that the chain client imports aborts the round
\* in whatever state the sync is; one that it reports as AlreadyInChain or
\* AlreadyQueued leaves the round as it was.
C40_ImportedBlockEndsRound ==
    \A p \in cfg.peer_ids : \A i \in Inputs :
        /\ \A pkt \in ImportedBlocks :
              Importing(p, pkt) => RoundAborted(Deliver(p, pkt, i), i, pkt)
        /\ \A pkt \in KnownBlocks :
              Importing(p, pkt) => RoundKept(Deliver(p, pkt, i))

\* what the code keeps of the first half: an imported NewBlock aborts the
\* round in every state
C40_ImportedBlockAbortsRound ==
    \A p \in cfg.peer_ids : \A i \in Inputs :
        \A pkt \in ImportedBlocks :
            Importing(p, pkt) => RoundAborted(Deliver(p, pkt, i), i, pkt)

\* what the code keeps of the second half: a NewBlock the chain already has
\* leaves the round as it was unless the continue_sync that ends the handler
\* finds a download state with no request in flight, which is the state that
\* abort leaves behind
C40_KnownBlockKeepsRound ==
    \A p \in cfg.peer_ids : \A i \in Inputs :
        \A pkt \in KnownBlocks :
            /\ Importing(p, pkt)
            /\ state \in DownloadingStates => InFlight(World)
            => RoundKept(Deliver(p, pkt, i))

====
